---------------------------- MODULE Spec2Model ----------------------------
(***************************************************************************)
(* A model of the prompt-lab experiment harness:                           *)
(*   - answer scoring (evaluator/metrics.py): _normalize_label and         *)
(*     compute_accuracy;                                                   *)
(*   - the three prompting methods (methods/baseline.py, cot.py,           *)
(*     fewshot.py): the run loop over the prompt variants and the client;  *)
(*   - the dataset side (dataset/generator.py): generate_dummy_tasks,      *)
(*     load_tasks_from_json, pad_prompt_to_target_tokens and               *)
(*     build_prompt_variants;                                              *)
(*   - the deterministic fake client (utils/llm_client.py):                *)
(*     DummyLLMClient.complete;                                            *)
(*   - the Azure OpenAI helper (azure_openai_helper/llm_client.py):        *)
(*     llm_query with _load_configuration;                                 *)
(*   - the baseline experiment script (run_baseline_experiment.py): main;  *)
(*   - the orchestrators (run_full_pipeline.py, run_all_experiments.py);   *)
(*   - the command line (prompt_lab/cli.py): main;                         *)
(*   - the configuration loader (config/loader.py): load_config;           *)
(*   - the configured experiment scripts (run_cot_experiment.py,           *)
(*     run_fewshot_experiment.py): main.                                   *)
(*                                                                         *)
(* Each component is a state machine of its own (SpecNorm, SpecAcc,        *)
(* SpecRun, SpecGen, SpecDummy, SpecQuery, SpecExp, SpecPipe, SpecCli,     *)
(* SpecConfig, SpecScript) over its own variables; the variables of the    *)
(* other components stay at their idle value.                              *)
(*                                                                         *)
(* Answers are sequences of one-character strings, so that strip, lower    *)
(* and the regular expression act on characters.  Prompt texts sent by the *)
(* methods are strings.  Prompt texts built by the dataset generator are   *)
(* sequences of tokens (a token is a whitespace character or a maximal run *)
(* of non-whitespace characters), so that str.split() is the sequence of   *)
(* the non-whitespace tokens.                                              *)
(***************************************************************************)
EXTENDS Integers, Sequences, FiniteSets, TLC

VARIABLES
    \* ---- _normalize_label, called on two related inputs
    normArg,      \* the argument s of the first call: None or Some(string)
    normAlt,      \* the argument of the second call
    normRes,      \* the first call's return value: Some(string) once returned
    normAltRes,   \* the second call's return value: Some(string) once returned
    \* ---- compute_accuracy
    accTasks,     \* the argument tasks
    accPreds,     \* the argument predictions
    accTruth,     \* the local truth_by_id (a function over the known ids)
    accTotal,     \* the local total
    accCorrect,   \* the local correct
    accIdx,       \* the number of predictions the loop has consumed
    accResult,    \* the returned EvaluationResult
    accPc,        \* "enter", "loop" or "done"
    \* ---- <Method>.run
    runMethod,    \* "baseline", "cot" or "fewshot"
    runConfig,    \* the method's configuration
    runInput,     \* the caller's list of PromptVariant, as passed
    runPrompts,   \* the list object the method iterates over
    runIdx,       \* the number of variants the for loop has consumed
    runResults,   \* the local list results
    runCalls,     \* the client's log: one entry per call of complete
    runStatus,    \* "running", "returned" or "raised"
    runReturned,  \* what the caller of run received: Some(list) once run returned
    \* ---- the dataset side of an experiment script
    genSource,    \* cfg.experiment.dataset: "dummy" or "file"
    genFileExists, \* whether the file at dataset_path exists
    genFile,      \* the parsed JSON file: a list of items
    genTasks,     \* the list tasks
    genVariants,  \* the local list variants of build_prompt_variants
    genIdx,       \* the number of tasks the loop of build_prompt_variants has consumed
    genPc,        \* "load", "build", "done", "load_raised" or "build_raised"
    \* ---- DummyLLMClient
    dummyAttrs,   \* the instance attributes of the client: a set of <<name, value>>
    dummyLog,     \* one entry per call of complete: the request and the response
    dummyPc,      \* "ready" once the client is constructed
    \* ---- llm_query
    qryArgs,      \* the arguments prompt, temperature, max_tokens, system_message, model
    qryEnviron,   \* os.environ: the value of each variable, None when unset
    qryDotenv,    \* the values of the .env file: Some(mapping) once load_dotenv read it
    qrySdkStrict, \* whether the SDK's exception classes require the arguments
                  \* request, response, body of their constructors
    qryConfig,    \* the local config: Some(dict) once _load_configuration returned
    qryDeployment, \* the local deployment_name: Some(name) once chosen
    qryUseSecondary, \* the local use_secondary
    qryClient,    \* the local client: Some(the arguments AzureOpenAI was created with)
    qryTrace,     \* the I/O done so far: environment loads, clients created, API calls
    qryOutcome,   \* how llm_query ended: Some(returned value or raised exception)
    qryPc,        \* "validate", "load", "select", "client", "call" or "done"
    \* ---- run_baseline_experiment.main
    expCall,      \* the keyword arguments BaselineMethod is constructed with
    expTasks,     \* the local tasks
    expPrompts,   \* the local prompts
    expMethod,    \* the local baseline: Some(fields) once constructed
    expPredictions, \* the list results of BaselineMethod.run, then predictions
    expEval,      \* the local eval_result: Some(EvaluationResult) once computed
    expRows,      \* the rows of baseline_predictions.csv: Some(rows) once opened
    expMetrics,   \* the row of baseline_metrics.csv: Some(row) once written
    expError,     \* the exception main ended with, if any
    expPc,        \* "prepare", "construct", "run", "write", "done" or "raised"
    \* ---- run_full_pipeline.main and run_all_experiments.main
    raMethods,    \* the local methods of run_all_experiments: the configured names
    raExisting,   \* the experiment scripts that exist in src/
    raIdx,        \* the position of the loop over methods
    raRuns,       \* the experiment subprocesses run so far: method, script, return code
    raLog,        \* the [WARN] and [ERROR] lines printed so far
    raExit,       \* the exit status of run_all_experiments: Some(status) once ended
    raPc,         \* "idle", "load", "loop", "done" or "raised"
    pipeStage,    \* the number of the step main of run_full_pipeline is at
    pipeStarted,  \* the scripts run_step has started, in order
    pipeCodes,    \* the return codes of the steps that ended, in order
    pipeExit,     \* the exit status of run_full_pipeline: Some(status) once ended
    pipePc,       \* "main", "wait" or "exited"
    \* ---- prompt_lab.cli.main
    cliArgs,      \* the parsed arguments: command, config, provider, dataset_path, output_dir
    cliExisting,  \* the scripts that exist under the project root
    cliEnviron,   \* os.environ: the value of each PROMPT_LAB_ variable, None when unset
    cliPending,   \* the scripts the command has still to run
    cliResults,   \* one entry per call of _run_script: script, spawned, rc
    cliReturn,    \* the return value of main: Some(code) once returned
    cliPc,        \* "parse", "dispatch" or "returned"
    \* ---- load_config
    cfgPath,      \* the argument path: None or Some(path)
    cfgFile,      \* the local path after lines 85-86: Some(the file to read)
    cfgEnviron,   \* os.environ: the value of each PROMPT_LAB_ variable, None when unset
    cfgExisting,  \* the configuration files that exist
    cfgResult,    \* Some(the AppConfig returned, or the exception raised) once ended
    cfgPc,        \* "enter", "open" or "done"
    \* ---- run_cot_experiment.main and run_fewshot_experiment.main
    scrScript,    \* "cot" or "fewshot": the script that is run
    scrEnviron,   \* os.environ: the value of each PROMPT_LAB_ variable, None when unset
    scrOpenAIReady, \* whether OpenAILLMClient() can be constructed (package and key)
    scrCfg,       \* the local cfg: Some(AppConfig) once load_config returned
    scrTasks,     \* the local tasks
    scrPrompts,   \* the local prompts
    scrClient,    \* the local llm_client: Some("openai") or Some("dummy") once chosen
    scrSent,      \* the number of requests sent to the client
    scrPredictions, \* the results of the method's run so far, then predictions
    scrEval,      \* the local eval_result: Some(EvaluationResult) once computed
    scrRows,      \* the rows of the predictions file: Some(rows) once written
    scrMetrics,   \* the row of the metrics file: Some(row) once written
    scrError,     \* the exception main ended with, if any
    scrPc         \* "start", "data", "client", "run", "evaluate", "write", "metrics",
                  \* "done" or "raised"

normVars == <<normArg, normAlt, normRes, normAltRes>>
accVars  == <<accTasks, accPreds, accTruth, accTotal, accCorrect, accIdx, accResult,
              accPc>>
runVars  == <<runMethod, runConfig, runInput, runPrompts, runIdx, runResults,
              runCalls, runStatus, runReturned>>
genVars  == <<genSource, genFileExists, genFile, genTasks, genVariants, genIdx, genPc>>
dummyVars == <<dummyAttrs, dummyLog, dummyPc>>
qryVars  == <<qryArgs, qryEnviron, qryDotenv, qrySdkStrict, qryConfig, qryDeployment,
              qryUseSecondary, qryClient, qryTrace, qryOutcome, qryPc>>
expVars  == <<expCall, expTasks, expPrompts, expMethod, expPredictions, expEval, expRows,
              expMetrics, expError, expPc>>
pipeVars == <<raMethods, raExisting, raIdx, raRuns, raLog, raExit, raPc, pipeStage,
              pipeStarted, pipeCodes, pipeExit, pipePc>>
cliVars == <<cliArgs, cliExisting, cliEnviron, cliPending, cliResults, cliReturn, cliPc>>
cfgVars == <<cfgPath, cfgFile, cfgEnviron, cfgExisting, cfgResult, cfgPc>>
scrVars == <<scrScript, scrEnviron, scrOpenAIReady, scrCfg, scrTasks, scrPrompts, scrClient, scrSent, scrPredictions, scrEval, scrRows, scrMetrics, scrError, scrPc>>
vars     == <<normVars, accVars, runVars, genVars, dummyVars, qryVars, expVars, pipeVars, cliVars, cfgVars, scrVars>>

\* An optional value is a sequence of length at most one: None is the empty
\* one, Some(v) holds v.  Optional[str], Optional[int] and a call's return
\* value (absent until the call returns) are kept like this.
None == <<>>
Some(v) == <<v>>
\* the value of a variable that holds nothing (yet)
Unset == <<>>

-----------------------------------------------------------------------------
(* Bounds of the model *)

\* longest enumerated answer string
MaxLabelLen == 3

-----------------------------------------------------------------------------
(* Characters and strings of characters *)

\* the characters of the enumerated answers: a lower-case and an upper-case
\* letter, a hyphen, a punctuation mark and a whitespace character
Alphabet == {"a", "A", "-", ".", " "}

\* str.lower on one character
LowerTable ==
    [c \in {"A", "P", "O", "S", "I", "T", "V", "E", "W", "L", "F", "R", "M", "D", "Y", "N"} |->
        CASE c = "A" -> "a" [] c = "P" -> "p" [] c = "O" -> "o" [] c = "S" -> "s"
          [] c = "I" -> "i" [] c = "T" -> "t" [] c = "V" -> "v" [] c = "E" -> "e"
          [] c = "W" -> "w" [] c = "L" -> "l" [] c = "F" -> "f" [] c = "R" -> "r"
          [] c = "M" -> "m" [] c = "D" -> "d" [] c = "Y" -> "y" [] c = "N" -> "n"]

LowerChar(c) == IF c \in DOMAIN LowerTable THEN LowerTable[c] ELSE c

\* str.isspace on one character
IsSpace(c) == c \in {" ", "\t", "\n", "\r"}

Letters == (DOMAIN LowerTable) \cup {LowerTable[c] : c \in DOMAIN LowerTable}
Digits  == {"0", "1", "2", "3", "4", "5", "6", "7", "8", "9"}

\* the regular expression class \w: letters, digits and the underscore
IsWordChar(c) == c \in Letters \cup Digits \cup {"_"}

\* the regular expression class [^\w\-]
IsStripped(c) == ~IsWordChar(c) /\ c # "-"

\* all strings over A of length at most n
StringsUpTo(A, n) == UNION {[1..k -> A] : k \in 0..n}

RECURSIVE LStrip(_)
LStrip(s) == IF s # <<>> /\ IsSpace(Head(s)) THEN LStrip(Tail(s)) ELSE s

RECURSIVE RStrip(_)
RStrip(s) ==
    IF s # <<>> /\ IsSpace(s[Len(s)]) THEN RStrip(SubSeq(s, 1, Len(s) - 1)) ELSE s

\* str.strip()
Strip(s) == RStrip(LStrip(s))

\* str.lower()
Lower(s) == [i \in 1..Len(s) |-> LowerChar(s[i])]

\* re.sub(r"[^\w]+$", "", s): the class without the hyphen exception, a mutant
RECURSIVE SubTrailingNonWord(_)
SubTrailingNonWord(s) ==
    IF s # <<>> /\ ~IsWordChar(s[Len(s)])
    THEN SubTrailingNonWord(SubSeq(s, 1, Len(s) - 1))
    ELSE s

\* re.sub(r"[^\w\-]+$", "", s): the only match is the maximal trailing run of
\* characters of the class (a match must end at the end of s or before a final
\* newline, and the leftmost such match starts where the trailing run starts)
RECURSIVE SubTrailing(_)
SubTrailing(s) ==
    IF s # <<>> /\ IsStripped(s[Len(s)])
    THEN SubTrailing(SubSeq(s, 1, Len(s) - 1))
    ELSE s

\* re.sub(r"[^\w\-]$", "", s): one trailing character at most, a mutant
SubTrailingOnce(s) ==
    IF s # <<>> /\ IsStripped(s[Len(s)]) THEN SubSeq(s, 1, Len(s) - 1) ELSE s

\* metrics.py _normalize_label with the pattern [^\w\-]$ (no +): a mutant
NormalizeOneTrailing(s) == SubTrailingOnce(Lower(Strip(IF s = None THEN <<>> ELSE s[1])))

\* metrics.py _normalize_label without the lower(): a mutant
NormalizeNoLower(s) == SubTrailing(Strip(IF s = None THEN <<>> ELSE s[1]))

\* metrics.py _normalize_label with the class [^\w]+$ (hyphens stripped too): a mutant
NormalizeHyphenStripped(s) ==
    SubTrailingNonWord(Lower(Strip(IF s = None THEN <<>> ELSE s[1])))

\* metrics.py _normalize_label; s is None or Some(string), and `s or ""` is the
\* empty string for None
NormalizeLabel(s) == SubTrailing(Lower(Strip(IF s = None THEN <<>> ELSE s[1])))

-----------------------------------------------------------------------------
(* _normalize_label on two inputs that differ in case, outer whitespace or a
   trailing run of stripped characters *)

Positive     == <<"p", "o", "s", "i", "t", "i", "v", "e">>
PositiveDot  == Positive \o <<".">>
PositiveUp   == <<"P", "O", "S", "I", "T", "I", "V", "E">>
PositiveSp   == Positive \o <<" ", " ">>
WellFormed   == <<"W", "e", "l", "l", "-", "f", "o", "r", "m", "e", "d">>
wellFormed   == <<"w", "e", "l", "l", "-", "f", "o", "r", "m", "e", "d">>

\* the inputs of the first call
LabelInputs ==
    {None} \cup {Some(s) : s \in StringsUpTo(Alphabet, MaxLabelLen)
                                \cup {Positive, PositiveDot, PositiveUp, PositiveSp,
                                      WellFormed}}

\* the two characters are the same letter in the same or the other case
CasePairs ==
    {<<u, LowerTable[u]>> : u \in DOMAIN LowerTable}
        \cup {<<LowerTable[u], u>> : u \in DOMAIN LowerTable}

\* s with the case of the letter at position i changed
FlipCase(s, i) ==
    [s EXCEPT ![i] = IF \E p \in CasePairs : p[1] = s[i]
                     THEN (CHOOSE p \in CasePairs : p[1] = s[i])[2]
                     ELSE s[i]]

\* the strings that differ from s in one of the ways _normalize_label ignores:
\* the case of one letter, one more leading or trailing whitespace character,
\* one more character in the trailing run of stripped characters
AlternativesOf(s) ==
    {s} \cup {FlipCase(s, i) : i \in 1..Len(s)}
        \cup {<<" ">> \o s, s \o <<" ">>}
        \cup {s \o <<c>> : c \in {c \in Alphabet : IsStripped(c)}}

Alternatives(o) ==
    IF o = None THEN {None, Some(<<>>)} ELSE {Some(t) : t \in AlternativesOf(o[1])}

NormIdle ==
    /\ normArg = Unset /\ normAlt = Unset
    /\ normRes = Unset /\ normAltRes = Unset

NormStart ==
    /\ normArg \in LabelInputs
    /\ normAlt \in Alternatives(normArg)
    /\ normRes = Unset /\ normAltRes = Unset

\* the call _normalize_label(normArg)
NormalizeArg ==
    /\ normRes = Unset
    /\ normRes' = Some(NormalizeLabel(normArg))
    /\ UNCHANGED <<normArg, normAlt, normAltRes>>

\* the call _normalize_label(normAlt)
NormalizeAlt ==
    /\ normAltRes = Unset
    /\ normAltRes' = Some(NormalizeLabel(normAlt))
    /\ UNCHANGED <<normArg, normAlt, normRes>>

-----------------------------------------------------------------------------
(* compute_accuracy *)

\* longest enumerated list of tasks passed to compute_accuracy
MaxAccTasks == 2
\* longest enumerated list of predictions passed to compute_accuracy
MaxAccPreds == 2

\* generator.py Task
Task(id, type, input, truth) ==
    [id |-> id, task_type |-> type, input_text |-> input, ground_truth |-> truth]

\* baseline.py BaselineResult
BaselineResult(tid, len, text, answer, tin, tout) ==
    [task_id |-> tid, prompt_length |-> len, prompt_text |-> text,
     predicted_answer |-> answer, tokens_input |-> tin, tokens_output |-> tout]

\* metrics.py EvaluationResult
EvaluationResult(total, correct, accuracy) ==
    [total |-> total, correct |-> correct, accuracy |-> accuracy]

\* a float that is the quotient of two small integers, kept as the fraction
Fraction(n, d) == [num |-> n, den |-> d]
\* the float literal 0.0
ZeroFloat == Fraction(0, 1)
\* equality of two floats that are quotients of small integers
SameFloat(x, y) == x.num * y.den = y.num * x.den

AccTaskPool ==
    {Task(id, "logic", "q", gt) : id \in {"t1", "t2"}, gt \in {<<"a">>, <<"a", "-">>}}

AccPredPool ==
    {BaselineResult(tid, "short", "", ans, None, None) :
        tid \in {"t1", "t2", "t9"}, ans \in {<<"A", ".">>, <<"-">>}}

SeqsUpTo(S, n) == UNION {[1..k -> S] : k \in 0..n}

\* {t.id: t.ground_truth for t in tasks}: a later task replaces an earlier one
\* with the same id
TruthById(tasks) ==
    [id \in {tasks[i].id : i \in 1..Len(tasks)} |->
        LET last == CHOOSE i \in 1..Len(tasks) :
                        /\ tasks[i].id = id
                        /\ \A j \in 1..Len(tasks) : tasks[j].id = id => j <= i
        IN tasks[last].ground_truth]

AccIdle ==
    /\ accTasks = Unset /\ accPreds = Unset /\ accTruth = Unset
    /\ accTotal = Unset /\ accCorrect = Unset /\ accIdx = Unset /\ accResult = Unset
    /\ accPc = Unset

AccStart ==
    /\ accTasks \in SeqsUpTo(AccTaskPool, MaxAccTasks)
    /\ accPreds \in SeqsUpTo(AccPredPool, MaxAccPreds)
    /\ accTruth = Unset /\ accTotal = Unset /\ accCorrect = Unset
    /\ accIdx = Unset /\ accResult = Unset
    /\ accPc = "enter"

\* compute_accuracy, lines 50-53: the lookup table and the two counters
AccEnter ==
    /\ accPc = "enter"
    /\ accPc' = "loop"
    /\ accTruth' = TruthById(accTasks)
    /\ accTotal' = 0
    /\ accCorrect' = 0
    /\ accIdx' = 0
    /\ UNCHANGED <<accTasks, accPreds, accResult>>

\* the loop body with the `continue` moved above `total += 1`: a mutant
AccLoopUnknownNotCounted ==
    /\ accPc = "loop"
    /\ accIdx < Len(accPreds)
    /\ accPreds[accIdx + 1].task_id \notin DOMAIN accTruth
    /\ accIdx' = accIdx + 1
    /\ UNCHANGED <<accTasks, accPreds, accTruth, accTotal, accCorrect, accResult, accPc>>

\* one iteration of the loop for a prediction whose task_id has no ground truth
\* (lines 55-61)
AccLoopUnknown ==
    /\ accPc = "loop"
    /\ accIdx < Len(accPreds)
    /\ accPreds[accIdx + 1].task_id \notin DOMAIN accTruth
    /\ accTotal' = accTotal + 1
    /\ accIdx' = accIdx + 1
    /\ UNCHANGED <<accTasks, accPreds, accTruth, accCorrect, accResult, accPc>>

\* one iteration of the loop for a prediction with a ground truth (lines 55-67)
AccLoopKnown ==
    /\ accPc = "loop"
    /\ accIdx < Len(accPreds)
    /\ accPreds[accIdx + 1].task_id \in DOMAIN accTruth
    /\ LET p         == accPreds[accIdx + 1]
           gt        == accTruth[p.task_id]
           pred_norm == NormalizeLabel(Some(p.predicted_answer))
           gt_norm   == NormalizeLabel(Some(gt))
       IN /\ accTotal' = accTotal + 1
          /\ accCorrect' = IF pred_norm = gt_norm THEN accCorrect + 1 ELSE accCorrect
    /\ accIdx' = accIdx + 1
    /\ UNCHANGED <<accTasks, accPreds, accTruth, accResult, accPc>>

\* lines 69-70: the quotient and the return
AccReturn ==
    /\ accPc = "loop"
    /\ accIdx = Len(accPreds)
    /\ accPc' = "done"
    /\ accResult' = EvaluationResult(accTotal, accCorrect,
                        IF accTotal > 0 THEN Fraction(accCorrect, accTotal) ELSE ZeroFloat)
    /\ UNCHANGED <<accTasks, accPreds, accTruth, accTotal, accCorrect, accIdx>>

-----------------------------------------------------------------------------
(* The prompting methods: BaselineMethod.run, CoTMethod.run, FewShotMethod.run *)

\* longest enumerated list of prompt variants passed to run
MaxPrompts == 3
\* longest enumerated list of few-shot examples
MaxExamples == 2

\* generator.py PromptVariant
PromptVariant(tid, len, text) == [task_id |-> tid, length |-> len, prompt_text |-> text]

\* llm_client.py LLMRequest
LLMRequest(model, prompt, temp, maxtok) ==
    [model_name |-> model, prompt |-> prompt, temperature |-> temp, max_tokens |-> maxtok]

\* llm_client.py LLMResponse
LLMResponse(text, tin, tout) == [text |-> text, tokens_input |-> tin, tokens_output |-> tout]

\* fewshot.py FewShotExample
FewShotExample(input, output) == [input_text |-> input, output_text |-> output]

\* the constructor arguments model_name, temperature, max_tokens of the method
MethodParams == [model_name |-> "gpt-4o-mini", temperature |-> 0, max_tokens |-> 256]

\* the prompt variants run is called with
VariantPool ==
    { PromptVariant("t1", "short", "Is it so?\nAnswer:"),
      PromptVariant("t1", "long", "Answer yes or no.\nIs it so?\nAnswer:"),
      PromptVariant("t2", "medium", "") }

\* what a client's complete may return: LLMClient is an interface, and the
\* remote adapter reports whatever the service answers
ResponsePool ==
    { LLMResponse("yes", Some(7), Some(1)), LLMResponse("No, it is not.", None, None) }

ExamplePool ==
    { FewShotExample("2+2", "4"), FewShotExample("I hated it", "negative") }

\* cot.py CoTConfig
CoTConfigs == [add_prefix : BOOLEAN, add_suffix : BOOLEAN]

\* fewshot.py FewShotConfig
FewShotConfigs == [examples : SeqsUpTo(ExamplePool, MaxExamples), add_instruction : BOOLEAN]

\* str.join
RECURSIVE Join(_, _)
Join(parts, sep) ==
    IF parts = <<>> THEN ""
    ELSE IF Len(parts) = 1 THEN parts[1]
    ELSE parts[1] \o sep \o Join(Tail(parts), sep)

CoTPrefix == "You are an AI assistant. Let's think step by step."
CoTSuffix == "Think carefully through the problem, then provide a concise final answer."
FewShotInstruction == "Below are examples of correct responses. Follow the patterns."

\* cot.py _wrap_prompt_text
WrapPromptText(cfg, original) ==
    LET parts == (IF cfg.add_prefix THEN <<CoTPrefix>> ELSE <<>>)
                 \o <<original>>
                 \o (IF cfg.add_suffix THEN <<CoTSuffix>> ELSE <<>>)
    IN Join(parts, "\n\n")

\* _build_fewshot_prompt with the target block appended before the examples: a mutant
BuildFewshotPromptTargetFirst(cfg, original) ==
    LET parts == (IF cfg.add_instruction THEN <<FewShotInstruction>> ELSE <<>>)
                 \o <<"Input: " \o original \o "\nOutput:">>
                 \o [i \in 1..Len(cfg.examples) |->
                        "Input: " \o cfg.examples[i].input_text
                            \o "\nOutput: " \o cfg.examples[i].output_text]
    IN Join(parts, "\n\n")

\* fewshot.py _build_fewshot_prompt
BuildFewshotPrompt(cfg, original) ==
    LET parts == (IF cfg.add_instruction THEN <<FewShotInstruction>> ELSE <<>>)
                 \o [i \in 1..Len(cfg.examples) |->
                        "Input: " \o cfg.examples[i].input_text
                            \o "\nOutput: " \o cfg.examples[i].output_text]
                 \o <<"Input: " \o original \o "\nOutput:">>
    IN Join(parts, "\n\n")

\* the prompt text BaselineMethod.run sends and stores for variant p
BaselinePromptText(p) == p.prompt_text

\* _call_llm: the request built from the method's fields and the prompt text
CallRequest(prompt_text) ==
    LLMRequest(MethodParams.model_name, prompt_text,
               MethodParams.temperature, MethodParams.max_tokens)

RunIdle ==
    /\ runMethod = Unset /\ runConfig = Unset /\ runInput = Unset
    /\ runPrompts = Unset /\ runIdx = Unset /\ runResults = Unset
    /\ runCalls = Unset /\ runStatus = Unset /\ runReturned = Unset

\* the state on entry of run, after `results = []`
RunStart ==
    /\ \/ runMethod = "baseline" /\ runConfig = None
       \/ runMethod = "cot" /\ runConfig \in CoTConfigs
       \/ runMethod = "fewshot" /\ runConfig \in FewShotConfigs
    /\ runInput \in SeqsUpTo(VariantPool, MaxPrompts)
    /\ runPrompts = runInput
    /\ runIdx = 0
    /\ runResults = <<>>
    /\ runCalls = <<>>
    /\ runStatus = "running"
    /\ runReturned = Unset

\* a loop iteration in which complete returns resp: the client logs the call
\* (response None for a call that raised), the result record is appended
IterationReturns(sent, stored, resp) ==
    LET p == runPrompts[runIdx + 1]
    IN /\ runCalls' = Append(runCalls,
               [variant |-> runIdx + 1, request |-> CallRequest(sent), response |-> Some(resp)])
       /\ runResults' = Append(runResults,
               BaselineResult(p.task_id, p.length, stored, resp.text,
                              resp.tokens_input, resp.tokens_output))
       /\ runIdx' = runIdx + 1
       /\ UNCHANGED <<runMethod, runConfig, runInput, runPrompts, runStatus, runReturned>>

\* a loop iteration in which complete raises: nothing in run catches it, so the
\* exception leaves run and the caller receives no list
IterationRaises(sent) ==
    /\ runCalls' = Append(runCalls,
            [variant |-> runIdx + 1, request |-> CallRequest(sent), response |-> None])
    /\ runStatus' = "raised"
    /\ UNCHANGED <<runMethod, runConfig, runInput, runPrompts, runIdx, runResults,
                   runReturned>>

\* a loop iteration that catches the exception and goes on to the next variant: a mutant
IterationSwallows(sent) ==
    /\ runCalls' = Append(runCalls,
            [variant |-> runIdx + 1, request |-> CallRequest(sent), response |-> None])
    /\ runIdx' = runIdx + 1
    /\ UNCHANGED <<runMethod, runConfig, runInput, runPrompts, runStatus, runResults,
                   runReturned>>

InLoop(method) ==
    /\ runMethod = method /\ runStatus = "running"
    /\ runIdx < Len(runPrompts)

\* `return results` after the loop
ReturnResults(method) ==
    /\ runMethod = method /\ runStatus = "running"
    /\ runIdx = Len(runPrompts)
    /\ runStatus' = "returned"
    /\ runReturned' = Some(runResults)
    /\ UNCHANGED <<runMethod, runConfig, runInput, runPrompts, runIdx, runResults, runCalls>>

\* BaselineMethod.run iteration with results.insert(0, ...): a mutant
BaselineCallReturnsPrepended ==
    /\ InLoop("baseline")
    /\ \E resp \in ResponsePool :
        LET p == runPrompts[runIdx + 1]
        IN /\ runCalls' = Append(runCalls,
                   [variant |-> runIdx + 1, request |-> CallRequest(BaselinePromptText(p)),
                    response |-> Some(resp)])
           /\ runResults' = <<BaselineResult(p.task_id, p.length, BaselinePromptText(p),
                                  resp.text, resp.tokens_input, resp.tokens_output)>>
                            \o runResults
           /\ runIdx' = runIdx + 1
           /\ UNCHANGED <<runMethod, runConfig, runInput, runPrompts, runStatus, runReturned>>

\* BaselineMethod.run iteration that sends the prompt with outer whitespace
\* stripped and a CoT prefix: a mutant
BaselineCallReturnsWrapped ==
    /\ InLoop("baseline")
    /\ \E resp \in ResponsePool :
        LET p == runPrompts[runIdx + 1]
            t == WrapPromptText([add_prefix |-> TRUE, add_suffix |-> FALSE], p.prompt_text)
        IN IterationReturns(t, t, resp)

\* BaselineMethod.run, lines 81-93, the client returning
BaselineCallReturns ==
    /\ InLoop("baseline")
    /\ \E resp \in ResponsePool :
        LET p == runPrompts[runIdx + 1]
        IN IterationReturns(BaselinePromptText(p), BaselinePromptText(p), resp)

\* BaselineMethod.run, line 82, the client raising
BaselineCallRaises ==
    /\ InLoop("baseline")
    /\ IterationRaises(BaselinePromptText(runPrompts[runIdx + 1]))

\* BaselineMethod.run, line 95
BaselineReturn == ReturnResults("baseline")

\* CoTMethod.run iteration that stores the variant's own prompt_text: a mutant
CoTCallReturnsStoresOriginal ==
    /\ InLoop("cot")
    /\ \E resp \in ResponsePool :
        LET p == runPrompts[runIdx + 1]
            cot_prompt_text == WrapPromptText(runConfig, p.prompt_text)
        IN IterationReturns(cot_prompt_text, p.prompt_text, resp)

\* CoTMethod.run, lines 86-99, the client returning
CoTCallReturns ==
    /\ InLoop("cot")
    /\ \E resp \in ResponsePool :
        LET p == runPrompts[runIdx + 1]
            cot_prompt_text == WrapPromptText(runConfig, p.prompt_text)
        IN IterationReturns(cot_prompt_text, cot_prompt_text, resp)

\* CoTMethod.run with try/except-continue around the call: a mutant
CoTCallSwallowed ==
    /\ InLoop("cot")
    /\ IterationSwallows(WrapPromptText(runConfig, runPrompts[runIdx + 1].prompt_text))

\* CoTMethod.run, line 88, the client raising
CoTCallRaises ==
    /\ InLoop("cot")
    /\ IterationRaises(WrapPromptText(runConfig, runPrompts[runIdx + 1].prompt_text))

\* CoTMethod.run, line 101
CoTReturn == ReturnResults("cot")

\* FewShotMethod.run, lines 94-107, the client returning
FewShotCallReturns ==
    /\ InLoop("fewshot")
    /\ \E resp \in ResponsePool :
        LET p == runPrompts[runIdx + 1]
            fs_prompt == BuildFewshotPrompt(runConfig, p.prompt_text)
        IN IterationReturns(fs_prompt, fs_prompt, resp)

\* FewShotMethod.run, line 96, the client raising
FewShotCallRaises ==
    /\ InLoop("fewshot")
    /\ IterationRaises(BuildFewshotPrompt(runConfig, runPrompts[runIdx + 1].prompt_text))

\* FewShotMethod.run, line 109
FewShotReturn == ReturnResults("fewshot")

-----------------------------------------------------------------------------
(* The dataset side: generate_dummy_tasks, load_tasks_from_json,
   pad_prompt_to_target_tokens, build_prompt_variants *)

\* longest enumerated JSON task file
MaxItems == 3

\* the target word counts build_prompt_variants pads to
ShortTarget == 50
MediumTarget == 200
LongTarget == 500

\* concatenation of two texts: the last token of a and the first token of b
\* become one token when neither is whitespace
Cat(a, b) ==
    IF a # <<>> /\ b # <<>> /\ ~IsSpace(a[Len(a)]) /\ ~IsSpace(b[1])
    THEN SubSeq(a, 1, Len(a) - 1) \o <<a[Len(a)] \o b[1]>> \o Tail(b)
    ELSE a \o b

\* str.split() with no argument: the non-whitespace tokens
Words(text) == SelectSeq(text, LAMBDA t : ~IsSpace(t))

\* the marker of pad_prompt_to_target_tokens
Marker == "Answer:"

\* the tokens of the enumerated texts that contain the marker as a substring,
\* each with what precedes and what follows the first occurrence in it
MarkerParts ==
    [t \in {"Answer:", "(Answer:yes)"} |->
        IF t = "Answer:" THEN <<"", "">> ELSE <<"(", "yes)">>]

HasMarker(tok) == tok \in DOMAIN MarkerParts

\* a one-token text, or the empty text for the empty string
TextOf(str) == IF str = "" THEN <<>> ELSE <<str>>

\* the position of the first token with the marker, 0 if there is none
FirstMarker(text) ==
    IF \E i \in 1..Len(text) : HasMarker(text[i])
    THEN CHOOSE i \in 1..Len(text) :
            HasMarker(text[i]) /\ \A j \in 1..(i - 1) : ~HasMarker(text[j])
    ELSE 0

\* generator.py PADDING_SENTENCE
PaddingSentence ==
    <<"This", " ", "sentence", " ", "is", " ", "additional", " ", "neutral",
      " ", "context", " ", "for", " ", "an", " ", "academic", " ",
      "experiment", " ", "and", " ", "does", " ", "not", " ", "affect", " ",
      "the", " ", "correct", " ", "answer.">>

\* build_prompt_variants, lines 129-134
SentimentShortBase(input) ==
    <<"Is", " ", "the", " ", "sentiment", " ", "of", " ", "this", " ",
      "sentence", " ", "positive", " ", "or", " ", "negative?", "\n">>
    \o input
    \o <<"\n", "Answer", " ", "with", " ", "one", " ", "word.", "\n", "Answer:">>

\* build_prompt_variants, lines 118-121, 136-140
SentimentMediumBase(input) ==
    <<"Classify", " ", "the", " ", "sentiment", " ", "of", " ", "the", " ",
      "sentence", " ", "as", " ", "either", " ", "\"positive\"", " ", "or",
      " ", "\"negative\".", "\n", "Answer", " ", "with", " ", "exactly", " ",
      "one", " ", "word.", "\n", "\n", "Sentence:", " ">>
    \o input
    \o <<"\n", "Answer:">>

\* build_prompt_variants, lines 122-127, 142-147
SentimentLongBase(input) ==
    <<"You", " ", "are", " ", "helping", " ", "with", " ", "sentiment", " ",
      "analysis", " ", "in", " ", "an", " ", "academic", " ", "experiment.",
      "\n", "\n", "Sentence:", " ">>
    \o input
    \o <<"\n", "\n", "Classify", " ", "the", " ", "sentiment", " ", "of", " ",
      "the", " ", "sentence.", "\n", "You", " ", "MUST", " ", "answer", " ",
      "with", " ", "EXACTLY", " ", "ONE", " ", "WORD:", " ", "\"positive\"",
      " ", "or", " ", "\"negative\".", "\n", "Do", " ", "NOT", " ", "add", " ",
      "any", " ", "other", " ", "words,", " ", "punctuation,", " ", "or", " ",
      "explanation.", "\n", "Only", " ", "output", " ", "the", " ", "one-word",
      " ", "label.", "\n", "Answer:">>

\* build_prompt_variants, lines 161-165
MathShortBase(input) ==
    input
    \o <<"\n", "What", " ", "is", " ", "the", " ", "answer?", "\n", "Answer:">>

\* build_prompt_variants, lines 150-153, 167-171
MathMediumBase(input) ==
    <<"Solve", " ", "the", " ", "problem", " ", "and", " ", "provide", " ",
      "ONLY", " ", "the", " ", "final", " ", "numeric", " ", "answer.", "\n",
      "Do", " ", "not", " ", "explain", " ", "your", " ", "calculation.", "\n",
      "\n", "Problem:", " ">>
    \o input
    \o <<"\n", "Answer:">>

\* build_prompt_variants, lines 154-159, 173-178
MathLongBase(input) ==
    <<"You", " ", "are", " ", "an", " ", "AI", " ", "assistant", " ",
      "solving", " ", "small", " ", "arithmetic", " ", "problems.", "\n", "\n",
      "Problem:", " ">>
    \o input
    \o <<"\n", "\n", "Solve", " ", "the", " ", "problem", " ", "step", " ", "by",
      " ", "step", " ", "in", " ", "your", " ", "head.", "\n", "Then", " ",
      "provide", " ", "ONLY", " ", "the", " ", "final", " ", "numeric", " ",
      "answer.", "\n", "Do", " ", "NOT", " ", "add", " ", "units,", " ",
      "punctuation,", " ", "or", " ", "explanation.", "\n", "Only", " ",
      "output", " ", "the", " ", "number.", "\n", "Answer:">>

\* build_prompt_variants, lines 192-196
LogicShortBase(input) ==
    input
    \o <<"\n", "Answer", " ", "yes", " ", "or", " ", "no.", "\n", "Answer:">>

\* build_prompt_variants, lines 181-184, 198-202
LogicMediumBase(input) ==
    <<"Answer", " ", "the", " ", "question", " ", "with", " ", "exactly", " ",
      "one", " ", "word:", " ", "\"yes\"", " ", "or", " ", "\"no\".", "\n",
      "Do", " ", "not", " ", "explain", " ", "your", " ", "reasoning.", "\n",
      "\n", "Question:", " ">>
    \o input
    \o <<"\n", "Answer:">>

\* build_prompt_variants, lines 185-190, 204-209
LogicLongBase(input) ==
    <<"You", " ", "are", " ", "helping", " ", "evaluate", " ", "logical", " ",
      "understanding.", "\n", "\n", "Question:", " ">>
    \o input
    \o <<"\n", "\n", "You", " ", "must", " ", "answer", " ", "the", " ",
      "following", " ", "question.", "\n", "You", " ", "MUST", " ", "respond",
      " ", "with", " ", "EXACTLY", " ", "ONE", " ", "WORD:", " ", "\"yes\"",
      " ", "or", " ", "\"no\".", "\n", "Do", " ", "NOT", " ", "add", " ",
      "any", " ", "other", " ", "words", " ", "or", " ", "explanation.", "\n",
      "Only", " ", "output", " ", "the", " ", "one-word", " ", "label.", "\n",
      "Answer:">>

\* the while loop of pad_prompt_to_target_tokens: the number of blocks appended
RECURSIVE PadBlocks(_, _)
PadBlocks(current, target) ==
    IF current + Len(Words(PaddingSentence)) <= target
    THEN 1 + PadBlocks(current + Len(Words(PaddingSentence)), target)
    ELSE 0

\* "\n".join(extra_blocks) for n blocks
RECURSIVE PaddingText(_)
PaddingText(n) ==
    IF n = 0 THEN <<>>
    ELSE IF n = 1 THEN PaddingSentence
    ELSE PaddingSentence \o <<"\n">> \o PaddingText(n - 1)

\* generator.py pad_prompt_to_target_tokens
PadPromptToTargetTokens(prompt, target_tokens) ==
    LET current == Len(Words(prompt))
    IN IF current >= target_tokens THEN prompt
       ELSE LET padding_text == PaddingText(PadBlocks(current, target_tokens))
                m == FirstMarker(prompt)
            IN IF m > 0
               THEN LET before == Cat(SubSeq(prompt, 1, m - 1), TextOf(MarkerParts[prompt[m]][1]))
                        after  == Cat(TextOf(MarkerParts[prompt[m]][2]),
                                      SubSeq(prompt, m + 1, Len(prompt)))
                    IN Cat(Cat(Cat(Cat(Cat(RStrip(before), <<"\n", "\n">>), padding_text),
                                   <<"\n", "\n">>), <<Marker>>), LStrip(after))
               ELSE Cat(Cat(RStrip(prompt), <<"\n", "\n">>), padding_text)

\* a JSON string and a JSON number
JStr(x) == [json |-> "string", val |-> x]
JInt(x) == [json |-> "number", val |-> x]

\* str() of a JSON value: a string is itself, a number its decimal digits
PyStr(v) ==
    IF v.json = "string" THEN v.val
    ELSE CASE v.val = 0 -> "0" [] v.val = 1 -> "1" [] v.val = 2 -> "2"

\* the enumerated input texts
TextLoved == <<"I", " ", "loved", " ", "it!">>
TextSeven == <<"What", " ", "is", " ", "7", " ", "+", " ", "5?">>
TextTrap  == <<"Write", " ", "(Answer:yes)", " ", "or", " ", "Answer:", " ", "no">>

\* the objects of the enumerated JSON files; input_text is kept as a text
ItemPool ==
    { [id |-> JStr("t1"), task_type |-> "sentiment", input_text |-> TextLoved,
       ground_truth |-> JStr(Positive)],
      [id |-> JStr("t1"), task_type |-> "math", input_text |-> TextSeven,
       ground_truth |-> JStr(<<"1", "2">>)],
      [id |-> JStr("1"), task_type |-> "logic", input_text |-> TextTrap,
       ground_truth |-> JStr(<<"n", "o">>)],
      [id |-> JInt(1), task_type |-> "math", input_text |-> <<>>,
       ground_truth |-> JStr(<<"0">>)],
      [id |-> JStr("t2"), task_type |-> "essay", input_text |-> TextLoved,
       ground_truth |-> JStr(<<>>)] }

\* generator.py generate_dummy_tasks
GenerateDummyTasks ==
    << Task("sentiment_1", "sentiment",
            <<"I", " ", "loved", " ", "the", " ", "movie,", " ", "it", " ", "was", " ",
              "fantastic!">>, Positive),
       Task("math_1", "math", TextSeven, <<"1", "2">>),
       Task("logic_1", "logic",
            <<"If", " ", "all", " ", "A", " ", "are", " ", "B,", " ", "and", " ", "all",
              " ", "B", " ", "are", " ", "C,", " ", "are", " ", "all", " ", "A", " ",
              "also", " ", "C?">>, <<"y", "e", "s">>) >>

\* the loop of load_tasks_from_json (lines 264-276)
TasksOfItems(raw_list) ==
    [i \in 1..Len(raw_list) |->
        Task(PyStr(raw_list[i].id), raw_list[i].task_type,
             raw_list[i].input_text, PyStr(raw_list[i].ground_truth))]

\* the three prompt bases of a task, by task type (lines 117-209)
PromptBases(task) ==
    CASE task.task_type = "sentiment" ->
            <<SentimentShortBase(task.input_text), SentimentMediumBase(task.input_text),
              SentimentLongBase(task.input_text)>>
      [] task.task_type = "math" ->
            <<MathShortBase(task.input_text), MathMediumBase(task.input_text),
              MathLongBase(task.input_text)>>
      [] task.task_type = "logic" ->
            <<LogicShortBase(task.input_text), LogicMediumBase(task.input_text),
              LogicLongBase(task.input_text)>>

KnownTaskTypes == {"sentiment", "math", "logic"}

\* the three variants appended for one task (lines 214-239)
VariantsOfTask(task) ==
    LET bases == PromptBases(task)
    IN << PromptVariant(task.id, "short", PadPromptToTargetTokens(bases[1], ShortTarget)),
          PromptVariant(task.id, "medium", PadPromptToTargetTokens(bases[2], MediumTarget)),
          PromptVariant(task.id, "long", PadPromptToTargetTokens(bases[3], LongTarget)) >>

GenIdle ==
    /\ genSource = Unset /\ genFileExists = Unset /\ genFile = Unset /\ genTasks = Unset
    /\ genVariants = Unset /\ genPc = Unset /\ genIdx = Unset

\* the dataset kind chosen by the caller (cfg.experiment.dataset in
\* run_cot_experiment.py) and, for "file", the file at dataset_path
GenStart ==
    /\ genSource \in {"dummy", "file", "csv"}
    /\ genFileExists \in BOOLEAN
    /\ IF genSource = "file" /\ genFileExists
       THEN genFile \in SeqsUpTo(ItemPool, MaxItems)
       ELSE genFile = <<>>
    /\ genTasks = Unset /\ genVariants = Unset /\ genIdx = Unset
    /\ genPc = "load"

\* run_cot_experiment.py lines 28-29: tasks = generate_dummy_tasks()
GenLoadDummy ==
    /\ genPc = "load" /\ genSource = "dummy"
    /\ genTasks' = GenerateDummyTasks
    /\ genVariants' = <<>>
    /\ genIdx' = 0
    /\ genPc' = "build"
    /\ UNCHANGED <<genSource, genFileExists, genFile>>

\* run_cot_experiment.py lines 30-32: tasks = load_tasks_from_json(dataset_path)
GenLoadFile ==
    /\ genPc = "load" /\ genSource = "file" /\ genFileExists
    /\ genTasks' = TasksOfItems(genFile)
    /\ genVariants' = <<>>
    /\ genIdx' = 0
    /\ genPc' = "build"
    /\ UNCHANGED <<genSource, genFileExists, genFile>>

\* load_tasks_from_json lines 258-259: FileNotFoundError
GenLoadFileMissing ==
    /\ genPc = "load" /\ genSource = "file" /\ ~genFileExists
    /\ genPc' = "load_raised"
    /\ UNCHANGED <<genSource, genFileExists, genFile, genTasks, genVariants, genIdx>>

\* run_cot_experiment.py lines 33-34: ValueError, unknown dataset type
GenLoadUnknown ==
    /\ genPc = "load" /\ genSource \notin {"dummy", "file"}
    /\ genPc' = "load_raised"
    /\ UNCHANGED <<genSource, genFileExists, genFile, genTasks, genVariants, genIdx>>

\* one iteration of build_prompt_variants without the long variant: a mutant
GenBuildTaskNoLong ==
    /\ genPc = "build" /\ genIdx < Len(genTasks)
    /\ genTasks[genIdx + 1].task_type \in KnownTaskTypes
    /\ genVariants' = genVariants \o SubSeq(VariantsOfTask(genTasks[genIdx + 1]), 1, 2)
    /\ genIdx' = genIdx + 1
    /\ UNCHANGED <<genSource, genFileExists, genFile, genTasks, genPc>>

\* one iteration of the loop of build_prompt_variants for a task of a known
\* type (lines 116-239)
GenBuildTask ==
    /\ genPc = "build" /\ genIdx < Len(genTasks)
    /\ genTasks[genIdx + 1].task_type \in KnownTaskTypes
    /\ genVariants' = genVariants \o VariantsOfTask(genTasks[genIdx + 1])
    /\ genIdx' = genIdx + 1
    /\ UNCHANGED <<genSource, genFileExists, genFile, genTasks, genPc>>

\* lines 211-212: ValueError for a task of another type; the variants built so
\* far are lost with the frame
GenBuildRaises ==
    /\ genPc = "build" /\ genIdx < Len(genTasks)
    /\ genTasks[genIdx + 1].task_type \notin KnownTaskTypes
    /\ genVariants' = Unset
    /\ genPc' = "build_raised"
    /\ UNCHANGED <<genSource, genFileExists, genFile, genTasks, genIdx>>

\* line 241: return variants
GenBuildReturn ==
    /\ genPc = "build" /\ genIdx = Len(genTasks)
    /\ genPc' = "done"
    /\ UNCHANGED <<genSource, genFileExists, genFile, genTasks, genVariants, genIdx>>

-----------------------------------------------------------------------------
(* DummyLLMClient (utils/llm_client.py).  The prompt, the model name and     *)
(* the returned text are sequences of one-character strings, so that the    *)
(* slice, replace and split of complete act on characters.                  *)

\* the most calls of complete in one enumerated run
MaxDummyCalls == 3

\* the length of the slice request.prompt[:80]
SnippetLen == 80

\* s[:n]
Take(s, n) == SubSeq(s, 1, IF Len(s) < n THEN Len(s) ELSE n)

\* s.replace("\n", " ")
ReplaceNewlines(s) == [i \in 1..Len(s) |-> IF s[i] = "\n" THEN " " ELSE s[i]]

\* len(s.split()): the number of maximal runs of non-whitespace characters
WordCount(s) ==
    Cardinality({i \in 1..Len(s) : ~IsSpace(s[i]) /\ (i = 1 \/ IsSpace(s[i - 1]))})

\* the literal parts of the f-string fake_text
FakeHead ==
    <<"[", "D", "U", "M", "M", "Y", " ", "R", "E", "S", "P", "O", "N", "S",
      "E", "]", " ", "I", " ", "r", "e", "c", "e", "i", "v", "e", "d", " ",
      "a", " ", "p", "r", "o", "m", "p", "t", " ", "s", "t", "a", "r", "t",
      "i", "n", "g", " ", "w", "i", "t", "h", ":", " ", "'">>
FakeMid ==
    <<".", ".", ".", "'", ".", " ", "T", "h", "i", "s", " ", "i", "s", " ",
      "a", " ", "f", "a", "k", "e", " ", "a", "n", "s", "w", "e", "r", " ",
      "f", "o", "r", " ", "m", "o", "d", "e", "l", " ", "'">>
FakeTail == <<"'", ".">>

\* c repeated n times
Rep(c, n) == [i \in 1..n |-> c]

\* the enumerated prompts: the empty one, a short one with a newline, one
\* whose 80th character is inside its last word, one longer than the slice
\* with a newline after it
DummyPrompts ==
    { <<>>,
      <<"I", "s", " ", "i", "t", "\n", "s", "o", "?">>,
      Rep("x", 78) \o <<" ", "a", "b", "c", "d">>,
      <<"7", " ", "+", "\n">> \o Rep("y", 75) \o <<" ", "z", "\n", "A", ":">> }

\* the enumerated model names
DummyModels ==
    { <<"g", "p", "t", "-", "4", "o">>, <<"m", " ", "2">> }

\* the requests complete is called with
DummyRequests ==
    { LLMRequest(m, p, 0, 256) : m \in DummyModels, p \in DummyPrompts }

\* complete that counts the words of the snippet only: a mutant
DummyResponseSnippetTokens(request) ==
    LET snippet   == ReplaceNewlines(Take(request.prompt, SnippetLen))
        fake_text == FakeHead \o snippet \o FakeMid \o request.model_name \o FakeTail
    IN LLMResponse(fake_text, Some(WordCount(snippet)), Some(WordCount(fake_text)))

\* complete that leaves the model name out of the text: a mutant
DummyResponseNoModel(request) ==
    LET snippet   == ReplaceNewlines(Take(request.prompt, SnippetLen))
        fake_text == FakeHead \o snippet \o FakeMid \o FakeTail
    IN LLMResponse(fake_text, Some(WordCount(request.prompt)), Some(WordCount(fake_text)))

\* DummyLLMClient.complete, lines 53-63: the value it returns
DummyResponse(request) ==
    LET snippet   == ReplaceNewlines(Take(request.prompt, SnippetLen))
        fake_text == FakeHead \o snippet \o FakeMid \o request.model_name \o FakeTail
    IN LLMResponse(fake_text, Some(WordCount(request.prompt)), Some(WordCount(fake_text)))

DummyIdle ==
    /\ dummyAttrs = Unset /\ dummyLog = Unset /\ dummyPc = Unset

\* DummyLLMClient(): the class defines no __init__ and no attribute
DummyStart ==
    /\ dummyAttrs = {}
    /\ dummyLog = <<>>
    /\ dummyPc = "ready"

\* a client that numbers its answers with a counter it keeps: a mutant
DummyCompleteCounting ==
    /\ dummyPc = "ready"
    /\ Len(dummyLog) < MaxDummyCalls
    /\ \E request \in DummyRequests :
          LET r == DummyResponse(request)
          IN dummyLog' = Append(dummyLog,
                 [request |-> request, request_after |-> request,
                  response |-> LLMResponse(r.text, r.tokens_input,
                                           Some(Len(dummyLog)))])
    /\ dummyAttrs' = {<<"calls", Len(dummyLog) + 1>>}
    /\ UNCHANGED dummyPc

\* one call client.complete(request): the method reads request.prompt and
\* request.model_name, assigns to no attribute of self or of request, and
\* returns a new LLMResponse
DummyComplete ==
    /\ dummyPc = "ready"
    /\ Len(dummyLog) < MaxDummyCalls
    /\ \E request \in DummyRequests :
          dummyLog' = Append(dummyLog,
              [request |-> request, request_after |-> request,
               response |-> DummyResponse(request)])
    /\ UNCHANGED <<dummyAttrs, dummyPc>>

-----------------------------------------------------------------------------
(* llm_query (azure_openai_helper/llm_client.py).  The prompt is a sequence *)
(* of one-character strings; an environment value is a text of tokens (the *)
(* empty text for the empty string); a temperature is kept in tenths.      *)

\* the names os.getenv is called with
RequiredVars ==
    {"AZURE_OPENAI_ENDPOINT", "AZURE_OPENAI_API_KEY",
     "AZURE_OPENAI_DEPLOYMENT_NAME", "AZURE_OPENAI_API_VERSION"}
SecondaryVars ==
    {"AZURE_OPENAI_DEPLOYMENT_NAME_SECONDARY", "AZURE_OPENAI_ENDPOINT_SECONDARY",
     "AZURE_OPENAI_API_KEY_SECONDARY"}
EnvVars == RequiredVars \cup SecondaryVars

\* a complete primary configuration
PrimaryValues ==
    [AZURE_OPENAI_ENDPOINT        |-> Some(<<"https://one">>),
     AZURE_OPENAI_API_KEY         |-> Some(<<"key-one">>),
     AZURE_OPENAI_DEPLOYMENT_NAME |-> Some(<<"gpt-4o">>),
     AZURE_OPENAI_API_VERSION     |-> Some(<<"2024-02-01">>)]

\* the enumerated values of the secondary endpoint
SecondaryEndpoints ==
    { <<"https://two">>, <<"https://two", "/models">>,
      <<"https://two", "/models", "/">> }

\* a complete secondary configuration with endpoint e
SecondaryValues(e) ==
    [AZURE_OPENAI_DEPLOYMENT_NAME_SECONDARY |-> Some(<<"phi-4">>),
     AZURE_OPENAI_ENDPOINT_SECONDARY        |-> Some(e),
     AZURE_OPENAI_API_KEY_SECONDARY         |-> Some(<<"key-two">>)]

\* f with the value at name replaced by v
With(f, name, v) == [n \in DOMAIN f |-> IF n = name THEN v ELSE f[n]]

\* the primary part of the enumerated environments: complete, or one value
\* unset or set to the empty string
PrimaryEnvs ==
    {PrimaryValues}
        \cup {With(PrimaryValues, n, v) : n \in RequiredVars, v \in {None, Some(<<>>)}}

\* the secondary part: complete, nothing set, one value unset, or the key empty
SecondaryEnvs ==
    {SecondaryValues(e) : e \in SecondaryEndpoints}
        \cup {[n \in SecondaryVars |-> None]}
        \cup {With(SecondaryValues(<<"https://two">>), n, None) : n \in SecondaryVars}
        \cup {With(SecondaryValues(<<"https://two">>),
                   "AZURE_OPENAI_API_KEY_SECONDARY", Some(<<>>))}

\* the two parts as one mapping
Merge(p, s) == [n \in EnvVars |-> IF n \in DOMAIN p THEN p[n] ELSE s[n]]

\* os.environ before the call
Environs == {Merge(p, s) : p \in PrimaryEnvs, s \in SecondaryEnvs}

\* the .env file: none, or one with a complete primary and secondary configuration
DotenvFiles ==
    { [n \in EnvVars |-> None],
      Merge(PrimaryValues, SecondaryValues(<<"https://two", "/models">>)) }

\* the arguments llm_query is called with
QueryPrompts == { <<>>, <<" ", "\n">>, <<"h", "i">> }
QueryTemperatures == {None, Some(-5), Some(0), Some(20), Some(21)}
QueryMaxTokens == {None, Some(-100), Some(0), Some(1)}
QuerySystemMessages == {None, Some("Be brief.")}
QueryModels == {None, Some(<<"primary">>), Some(<<"secondary">>), Some(<<"phi-4">>),
                Some(<<"o3">>)}
QueryArgs ==
    [prompt : QueryPrompts, temperature : QueryTemperatures,
     max_tokens : QueryMaxTokens, system_message : QuerySystemMessages,
     model : QueryModels]

\* an exception: its class and its message
Exc(kind, message) == [kind |-> kind, message |-> message]

\* `not value` for what os.getenv returns: None or the empty string
Falsy(value) == value = None \/ value[1] = <<>>

QueryIdle ==
    /\ qryArgs = Unset /\ qryEnviron = Unset /\ qryDotenv = Unset
    /\ qrySdkStrict = Unset /\ qryConfig = Unset /\ qryDeployment = Unset
    /\ qryUseSecondary = Unset /\ qryClient = Unset /\ qryTrace = Unset
    /\ qryOutcome = Unset /\ qryPc = Unset

\* the state on entry of llm_query
QueryStart ==
    /\ qryArgs \in QueryArgs
    /\ qryEnviron \in Environs
    /\ qryDotenv = None
    /\ qrySdkStrict \in BOOLEAN
    /\ qryConfig = None
    /\ qryDeployment = None
    /\ qryUseSecondary = FALSE
    /\ qryClient = None
    /\ qryTrace = <<>>
    /\ qryOutcome = None
    /\ qryPc = "validate"

\* what every step of llm_query leaves alone
QueryFrame == UNCHANGED <<qryArgs, qrySdkStrict>>

\* how a call ends: it returns a value or raises an exception
Returned(v) == [raised |-> FALSE, returned |-> Some(v), error |-> None]
Raised(e) == [raised |-> TRUE, returned |-> None, error |-> Some(e)]

\* the function is left with exception e
QueryRaise(e) == qryOutcome' = Some(Raised(e)) /\ qryPc' = "done"

\* lines 181-188: the three checks of the arguments, in this order
ValidationError(args) ==
    IF args.prompt = <<>> \/ Strip(args.prompt) = <<>>
    THEN Some(Exc("ValueError", "Prompt cannot be empty"))
    ELSE IF args.temperature # None
            /\ ~(0 <= args.temperature[1] /\ args.temperature[1] <= 20)
    THEN Some(Exc("ValueError", "Temperature must be between 0.0 and 2.0"))
    ELSE IF args.max_tokens # None /\ args.max_tokens[1] <= 0
    THEN Some(Exc("ValueError", "max_tokens must be a positive integer"))
    ELSE None

\* the required names in the order of the dict required_vars
RequiredOrder ==
    <<"AZURE_OPENAI_ENDPOINT", "AZURE_OPENAI_API_KEY",
      "AZURE_OPENAI_DEPLOYMENT_NAME", "AZURE_OPENAI_API_VERSION">>

\* load_dotenv(): a variable of the file is set unless os.environ has it already
LoadDotenv(environ, file) ==
    [n \in EnvVars |-> IF environ[n] # None THEN environ[n] ELSE file[n]]

\* _load_configuration, line 43: the required names whose value is unset or empty
IsMissing(environ, n) == Falsy(environ[n])
MissingVars(environ) == SelectSeq(RequiredOrder, LAMBDA n : IsMissing(environ, n))

\* _load_configuration, lines 52-65: the dict it returns
LoadedConfiguration(environ) ==
    LET has_all_secondary == \A n \in SecondaryVars : ~Falsy(environ[n])
    IN [values |-> [n \in (IF has_all_secondary THEN EnvVars ELSE RequiredVars)
                       |-> environ[n][1]],
        has_secondary_model |-> has_all_secondary]

\* _load_configuration that returns the dict whatever is missing: a mutant
QueryLoadConfigurationUnchecked ==
    /\ qryPc = "load"
    /\ \E file \in DotenvFiles :
          /\ qryDotenv' = Some(file)
          /\ qryEnviron' = LoadDotenv(qryEnviron, file)
    /\ qryTrace' = Append(qryTrace, [event |-> "load_dotenv"])
    /\ qryConfig' = Some([values |-> [n \in EnvVars |->
                              IF qryEnviron'[n] = None THEN <<>> ELSE qryEnviron'[n][1]],
                          has_secondary_model |-> TRUE])
    /\ qryPc' = "select"
    /\ UNCHANGED <<qryDeployment, qryUseSecondary, qryClient, qryOutcome>>
    /\ QueryFrame

\* llm_query with the configuration loaded before the arguments are checked: a mutant
QueryValidateAfterLoad ==
    /\ qryPc = "validate"
    /\ \E file \in DotenvFiles :
          /\ qryDotenv' = Some(file)
          /\ qryEnviron' = LoadDotenv(qryEnviron, file)
    /\ qryTrace' = Append(qryTrace, [event |-> "load_dotenv"])
    /\ IF MissingVars(qryEnviron') # <<>>
       THEN QueryRaise(Exc("ConfigurationError", "Configuration error: missing"))
       ELSE IF ValidationError(qryArgs) # None
       THEN QueryRaise(ValidationError(qryArgs)[1])
       ELSE qryPc' = "load" /\ UNCHANGED qryOutcome
    /\ UNCHANGED <<qryConfig, qryDeployment, qryUseSecondary, qryClient>>
    /\ QueryFrame

\* llm_query that lets max_tokens = 0 through: a mutant
QueryValidateZeroTokens ==
    /\ qryPc = "validate"
    /\ IF ValidationError(qryArgs) # None /\ qryArgs.max_tokens # Some(0)
       THEN QueryRaise(ValidationError(qryArgs)[1])
       ELSE qryPc' = "load" /\ UNCHANGED qryOutcome
    /\ UNCHANGED <<qryEnviron, qryConfig, qryDeployment, qryUseSecondary, qryClient,
                   qryTrace>>
    /\ UNCHANGED qryDotenv
    /\ QueryFrame

\* llm_query, lines 180-188: validate input
QueryValidate ==
    /\ qryPc = "validate"
    /\ IF ValidationError(qryArgs) # None
       THEN QueryRaise(ValidationError(qryArgs)[1])
       ELSE qryPc' = "load" /\ UNCHANGED qryOutcome
    /\ UNCHANGED <<qryEnviron, qryConfig, qryDeployment, qryUseSecondary, qryClient,
                   qryTrace>>
    /\ UNCHANGED qryDotenv
    /\ QueryFrame

\* llm_query, lines 190-194, with _load_configuration (lines 21-67):
\* load_dotenv reads the .env file into os.environ, the four required values
\* are read, and a missing one raises ConfigurationError, which llm_query
\* wraps in a new ConfigurationError
QueryLoadConfiguration ==
    /\ qryPc = "load"
    /\ \E file \in DotenvFiles :
          /\ qryDotenv' = Some(file)
          /\ qryEnviron' = LoadDotenv(qryEnviron, file)
    /\ qryTrace' = Append(qryTrace, [event |-> "load_dotenv"])
    /\ IF MissingVars(qryEnviron') # <<>>
       THEN /\ QueryRaise(Exc("ConfigurationError",
                   "Configuration error: Missing required environment variables: "
                       \o Join(MissingVars(qryEnviron'), ", ")
                       \o "\nPlease ensure these are set in your .env file."))
            /\ UNCHANGED qryConfig
       ELSE /\ qryConfig' = Some(LoadedConfiguration(qryEnviron'))
            /\ qryPc' = "select"
            /\ UNCHANGED qryOutcome
    /\ UNCHANGED <<qryDeployment, qryUseSecondary, qryClient>>
    /\ QueryFrame

\* model selection that takes the secondary deployment name with the primary
\* endpoint and key: a mutant
QuerySelectModelMixed ==
    /\ qryPc = "select"
    /\ LET config == qryConfig[1]
       IN IF qryArgs.model = Some(<<"secondary">>) /\ config.has_secondary_model
          THEN /\ qryUseSecondary' = FALSE
               /\ qryDeployment' =
                     Some(config.values["AZURE_OPENAI_DEPLOYMENT_NAME_SECONDARY"])
          ELSE /\ qryUseSecondary' = FALSE
               /\ qryDeployment' = Some(config.values["AZURE_OPENAI_DEPLOYMENT_NAME"])
    /\ qryPc' = "client"
    /\ UNCHANGED <<qryEnviron, qryConfig, qryClient, qryTrace, qryOutcome>>
    /\ UNCHANGED qryDotenv
    /\ QueryFrame

\* llm_query, lines 196-212: determine which model to use
QuerySelectModel ==
    /\ qryPc = "select"
    /\ LET config  == qryConfig[1]
           model   == qryArgs.model
           primary == config.values["AZURE_OPENAI_DEPLOYMENT_NAME"]
       IN IF model = Some(<<"secondary">>)
          THEN IF ~config.has_secondary_model
               THEN /\ QueryRaise(Exc("ConfigurationError",
                           "Secondary model requested but not configured in .env"))
                    /\ UNCHANGED <<qryDeployment, qryUseSecondary>>
               ELSE /\ qryUseSecondary' = TRUE
                    /\ qryDeployment' =
                          Some(config.values["AZURE_OPENAI_DEPLOYMENT_NAME_SECONDARY"])
                    /\ qryPc' = "client"
                    /\ UNCHANGED qryOutcome
          ELSE /\ IF model = Some(<<"primary">>) \/ model = None
                  THEN /\ qryUseSecondary' = FALSE
                       /\ qryDeployment' = Some(primary)
                  ELSE /\ qryDeployment' = Some(model[1])
                       /\ qryUseSecondary' =
                             (/\ config.has_secondary_model
                              /\ model[1] =
                                   config.values["AZURE_OPENAI_DEPLOYMENT_NAME_SECONDARY"])
               /\ qryPc' = "client"
               /\ UNCHANGED qryOutcome
    /\ UNCHANGED <<qryEnviron, qryConfig, qryClient, qryTrace>>
    /\ UNCHANGED qryDotenv
    /\ QueryFrame

\* str.endswith on a text whose tokens are path segments
EndsWith(text, suffix) ==
    /\ Len(text) >= Len(suffix)
    /\ SubSeq(text, Len(text) - Len(suffix) + 1, Len(text)) = suffix

\* lines 219-224: the secondary endpoint without a trailing /models or /models/
SecondaryEndpoint(endpoint) ==
    IF EndsWith(endpoint, <<"/models">>) THEN SubSeq(endpoint, 1, Len(endpoint) - 1)
    ELSE IF EndsWith(endpoint, <<"/models", "/">>)
    THEN SubSeq(endpoint, 1, Len(endpoint) - 2)
    ELSE endpoint

\* the keyword arguments AzureOpenAI is created with
ClientArgs(key, version, endpoint) ==
    [api_key |-> key, api_version |-> version, azure_endpoint |-> endpoint]

\* lines 215-236: initialize the client with the credentials of the deployment
QueryCreateClient ==
    /\ qryPc = "client"
    /\ LET config == qryConfig[1].values
           args   == IF qryUseSecondary
                     THEN ClientArgs(config["AZURE_OPENAI_API_KEY_SECONDARY"],
                                     config["AZURE_OPENAI_API_VERSION"],
                                     SecondaryEndpoint(
                                         config["AZURE_OPENAI_ENDPOINT_SECONDARY"]))
                     ELSE ClientArgs(config["AZURE_OPENAI_API_KEY"],
                                     config["AZURE_OPENAI_API_VERSION"],
                                     config["AZURE_OPENAI_ENDPOINT"])
       IN /\ qryClient' = Some(args)
          /\ qryTrace' = Append(qryTrace, [event |-> "client", args |-> args])
    /\ qryPc' = "call"
    /\ UNCHANGED <<qryEnviron, qryConfig, qryDeployment, qryUseSecondary, qryOutcome>>
    /\ UNCHANGED qryDotenv
    /\ QueryFrame

\* lines 237-238: the constructor of the client raised
QueryCreateClientRaises ==
    /\ qryPc = "client"
    /\ QueryRaise(Exc("ConfigurationError",
           "Failed to initialize Azure OpenAI client: " \o "invalid argument"))
    /\ UNCHANGED <<qryEnviron, qryConfig, qryDeployment, qryUseSecondary, qryClient,
                   qryTrace>>
    /\ UNCHANGED qryDotenv
    /\ QueryFrame

\* the classes of the exceptions, each with its base classes (the SDK's
\* hierarchy below OpenAIError, Python's above it)
Bases ==
    [RateLimitError     |-> {"RateLimitError", "APIStatusError", "APIError",
                             "OpenAIError", "Exception"},
     BadRequestError    |-> {"BadRequestError", "APIStatusError", "APIError",
                             "OpenAIError", "Exception"},
     APITimeoutError    |-> {"APITimeoutError", "APIConnectionError", "APIError",
                             "OpenAIError", "Exception"},
     APIConnectionError |-> {"APIConnectionError", "APIError", "OpenAIError",
                             "Exception"},
     APIError           |-> {"APIError", "OpenAIError", "Exception"},
     OpenAIError        |-> {"OpenAIError", "Exception"},
     TypeError          |-> {"TypeError", "Exception"},
     RuntimeError       |-> {"RuntimeError", "Exception"}]

\* isinstance(e, cls)
IsInstance(e, cls) == cls \in Bases[e.kind]

\* what client.chat.completions.create does: it returns a response with a
\* list of choices (the content of each) or raises
ApiOutcomes ==
    { Returned(<<>>), Returned(<<"four">>), Returned(<<"4", "four">>),
      Raised(Exc("RateLimitError", "429 slow down")),
      Raised(Exc("APIConnectionError", "Connection error.")),
      Raised(Exc("APITimeoutError", "Request timed out.")),
      Raised(Exc("BadRequestError", "400 bad request")),
      Raised(Exc("OpenAIError", "no api key")),
      Raised(Exc("RuntimeError", "closed")) }

\* cls(message): the SDK's APIError and its subclasses take further required
\* arguments (request, response, body), so a call with the message alone
\* raises TypeError when the SDK requires them
Construct(cls, message) ==
    IF qrySdkStrict /\ "APIError" \in Bases[cls]
    THEN Exc("TypeError", "__init__() missing required arguments")
    ELSE Exc(cls, message)

\* lines 268-278: the except clauses, tried in order for an exception e
\* raised in the try block; an exception raised inside a clause leaves the
\* function as it is
Handled(e) ==
    IF IsInstance(e, "RateLimitError")
    THEN Construct("RateLimitError", "Rate limit exceeded: " \o e.message)
    ELSE IF IsInstance(e, "APIConnectionError")
    THEN Construct("APIConnectionError", "Connection error: " \o e.message)
    ELSE IF IsInstance(e, "APIError") THEN e
    ELSE IF IsInstance(e, "OpenAIError")
    THEN Exc("OpenAIError", "OpenAI error: " \o e.message)
    ELSE Exc("Exception", "Unexpected error during API call: " \o e.message)

\* lines 240-256: the messages and the API parameters; a key that is not set
\* is None
ApiParams ==
    [model       |-> qryDeployment[1],
     messages    |-> (IF qryArgs.system_message \notin {None, Some("")}
                      THEN <<[role |-> "system", content |-> qryArgs.system_message[1]]>>
                      ELSE <<>>)
                     \o <<[role |-> "user", content |-> qryArgs.prompt]>>,
     temperature |-> qryArgs.temperature,
     max_tokens  |-> qryArgs.max_tokens]

\* lines 262-266: what the try block does with the response
AfterResponse(choices) ==
    IF Len(choices) > 0
    THEN Returned(choices[1])
    ELSE Raised(Handled(Construct("APIError",
                                  "No response choices returned from the API")))

\* lines 258-278: make the API call with error handling
QueryCallApi ==
    /\ qryPc = "call"
    /\ \E outcome \in ApiOutcomes :
          /\ qryTrace' = Append(qryTrace,
                 [event |-> "api_call", client |-> qryClient[1], params |-> ApiParams,
                  outcome |-> outcome])
          /\ qryOutcome' = Some(IF outcome.raised
                                THEN Raised(Handled(outcome.error[1]))
                                ELSE AfterResponse(outcome.returned[1]))
    /\ qryPc' = "done"
    /\ UNCHANGED <<qryEnviron, qryConfig, qryDeployment, qryUseSecondary, qryClient>>
    /\ UNCHANGED qryDotenv
    /\ QueryFrame

-----------------------------------------------------------------------------
(* The baseline experiment script (run_baseline_experiment.py): the dummy   *)
(* tasks, their prompt variants, BaselineMethod with its default client,    *)
(* compute_accuracy and the two CSV files.                                  *)

\* the characters of a string
CharsOfString(str) == [i \in 1..Len(str) |-> SubSeq(str, i, i)]

\* the characters of a text of tokens
RECURSIVE CharsOfText(_)
CharsOfText(text) ==
    IF text = <<>> THEN <<>>
    ELSE IF Len(text) = 1 THEN CharsOfString(text[1])
    ELSE LET half == Len(text) \div 2
         IN CharsOfText(SubSeq(text, 1, half))
                \o CharsOfText(SubSeq(text, half + 1, Len(text)))

\* build_prompt_variants: the variants of every task, in task order
RECURSIVE BuildPromptVariants(_)
BuildPromptVariants(tasks) ==
    IF tasks = <<>> THEN <<>>
    ELSE VariantsOfTask(Head(tasks)) \o BuildPromptVariants(Tail(tasks))

\* compute_accuracy as one call
ComputeAccuracy(tasks, predictions) ==
    LET truth_by_id == TruthById(tasks)
        correct == Cardinality({i \in 1..Len(predictions) :
                       /\ predictions[i].task_id \in DOMAIN truth_by_id
                       /\ NormalizeLabel(Some(predictions[i].predicted_answer))
                             = NormalizeLabel(Some(truth_by_id[predictions[i].task_id]))})
        total == Len(predictions)
    IN EvaluationResult(total, correct,
                        IF total > 0 THEN Fraction(correct, total) ELSE ZeroFloat)

\* the keyword arguments of a call BaselineMethod(...); None for an argument
\* that is not passed
MethodCall(model_name, temperature, max_tokens) ==
    [model_name |-> model_name, temperature |-> temperature, max_tokens |-> max_tokens]

\* run_baseline_experiment.py line 36: BaselineMethod()
ScriptCall == MethodCall(None, None, None)

\* the constructor calls: the script's, and calls that pass model_name as the
\* signature of __init__ requires
MethodCalls ==
    {ScriptCall}
        \cup {MethodCall(Some(m), t, k) :
                 m \in DummyModels, t \in {None, Some(7)}, k \in {None, Some(64)}}

\* the header and a row of the predictions file
PredictionsHeader ==
    <<"task_id", "prompt_length", "prompt_text", "predicted_answer", "ground_truth",
      "is_correct">>
PredictionRow(p, gt, is_correct) ==
    [task_id |-> p.task_id, prompt_length |-> p.prompt_length,
     prompt_text |-> p.prompt_text, predicted_answer |-> p.predicted_answer,
     ground_truth |-> gt, is_correct |-> is_correct]

ExpIdle ==
    /\ expCall = Unset /\ expTasks = Unset /\ expPrompts = Unset /\ expMethod = Unset
    /\ expPredictions = Unset /\ expEval = Unset /\ expRows = Unset
    /\ expMetrics = Unset /\ expError = Unset /\ expPc = Unset

\* the state on entry of main
ExpStart ==
    /\ expCall \in MethodCalls
    /\ expTasks = <<>>
    /\ expPrompts = <<>>
    /\ expMethod = None
    /\ expPredictions = <<>>
    /\ expEval = None
    /\ expRows = None
    /\ expMetrics = None
    /\ expError = None
    /\ expPc = "prepare"

\* lines 28-33: the tasks and their prompt variants
ExpPrepare ==
    /\ expPc = "prepare"
    /\ expTasks' = GenerateDummyTasks
    /\ expPrompts' = BuildPromptVariants(GenerateDummyTasks)
    /\ expPc' = "construct"
    /\ UNCHANGED <<expCall, expMethod, expPredictions, expEval, expRows, expMetrics,
                   expError>>

\* line 36 with BaselineMethod.__init__ (baseline.py lines 48-59): model_name
\* has no default, so a call that does not pass it raises TypeError, which
\* nothing in main catches; temperature and max_tokens default to 0.0 and 256
ExpConstruct ==
    /\ expPc = "construct"
    /\ IF expCall.model_name = None
       THEN /\ expError' = Some(Exc("TypeError",
                   "BaselineMethod.__init__() missing 1 required positional argument: 'model_name'"))
            /\ expPc' = "raised"
            /\ UNCHANGED expMethod
       ELSE /\ expMethod' = Some([model_name  |-> expCall.model_name[1],
                                  temperature |-> IF expCall.temperature = None THEN 0
                                                  ELSE expCall.temperature[1],
                                  max_tokens  |-> IF expCall.max_tokens = None THEN 256
                                                  ELSE expCall.max_tokens[1]])
            /\ expPc' = "run"
            /\ UNCHANGED expError
    /\ UNCHANGED <<expCall, expTasks, expPrompts, expPredictions, expEval, expRows,
                   expMetrics>>

\* line 37, one iteration of BaselineMethod.run (baseline.py lines 81-93) with
\* the default DummyLLMClient
ExpRunIteration ==
    /\ expPc = "run"
    /\ Len(expPredictions) < Len(expPrompts)
    /\ LET p        == expPrompts[Len(expPredictions) + 1]
           method   == expMethod[1]
           response == DummyResponse(LLMRequest(method.model_name,
                                                CharsOfText(p.prompt_text),
                                                method.temperature, method.max_tokens))
       IN expPredictions' = Append(expPredictions,
              BaselineResult(p.task_id, p.length, p.prompt_text, response.text,
                             response.tokens_input, response.tokens_output))
    /\ UNCHANGED <<expCall, expTasks, expPrompts, expMethod, expEval, expRows,
                   expMetrics, expError, expPc>>

\* line 40: eval_result = compute_accuracy(tasks, predictions)
ExpEvaluate ==
    /\ expPc = "run"
    /\ Len(expPredictions) = Len(expPrompts)
    /\ expEval' = Some(ComputeAccuracy(expTasks, expPredictions))
    /\ expPc' = "write"
    /\ UNCHANGED <<expCall, expTasks, expPrompts, expMethod, expPredictions, expRows,
                   expMetrics, expError>>

\* lines 43-55: the predictions file is opened and the header written
ExpWriteHeader ==
    /\ expPc = "write"
    /\ expRows = None
    /\ expRows' = Some(<<>>)
    /\ UNCHANGED <<expCall, expTasks, expPrompts, expMethod, expPredictions, expEval,
                   expMetrics, expError, expPc>>

\* lines 56-68: one row; is_correct compares the raw answer with the ground truth
ExpWriteRow ==
    /\ expPc = "write"
    /\ expRows # None
    /\ Len(expRows[1]) < Len(expPredictions)
    /\ LET p           == expPredictions[Len(expRows[1]) + 1]
           truth_by_id == TruthById(expTasks)
           gt          == IF p.task_id \in DOMAIN truth_by_id THEN truth_by_id[p.task_id]
                          ELSE <<>>
           is_correct  == IF p.predicted_answer = gt THEN 1 ELSE 0
       IN expRows' = Some(Append(expRows[1], PredictionRow(p, gt, is_correct)))
    /\ UNCHANGED <<expCall, expTasks, expPrompts, expMethod, expPredictions, expEval,
                   expMetrics, expError, expPc>>

\* lines 70-75: the metrics file
ExpWriteMetrics ==
    /\ expPc = "write"
    /\ expRows # None
    /\ Len(expRows[1]) = Len(expPredictions)
    /\ expMetrics' = Some(expEval[1])
    /\ expPc' = "done"
    /\ UNCHANGED <<expCall, expTasks, expPrompts, expMethod, expPredictions, expEval,
                   expRows, expError>>

-----------------------------------------------------------------------------
(* The orchestrators: run_full_pipeline.py runs its steps as subprocesses,  *)
(* the first of them run_all_experiments.py, which runs one experiment      *)
(* script per configured method.                                            *)

MaxMethods == 3

\* the method names a configuration may list: the three known ones and one
\* that script_map does not have
MethodNames == {"baseline", "cot", "fewshot", "zeroshot"}

RECURSIVE ListsUpTo(_, _)
ListsUpTo(S, n) ==
    IF n = 0 THEN {<<>>}
    ELSE ListsUpTo(S, n - 1)
            \cup {Append(l, x) : l \in {k \in ListsUpTo(S, n - 1) : Len(k) = n - 1}, x \in S}

MethodLists == ListsUpTo(MethodNames, MaxMethods)

\* script_map of run_all_experiments.main
ScriptMap ==
    [baseline |-> "run_baseline_experiment.py",
     cot      |-> "run_cot_experiment.py",
     fewshot  |-> "run_fewshot_experiment.py"]

ExperimentScripts == {ScriptMap[m] : m \in DOMAIN ScriptMap}

\* the return codes of a subprocess: an exit status, or minus the number of
\* the signal that killed it
ReturnCodes == {0, 1, 0 - 9}

\* sys.exit(code): the exit status is the code's low byte
ExitStatus(code) == code % 256

\* the steps of run_full_pipeline.main, in the order of the calls of run_step
Steps ==
    <<"src/run_all_experiments.py",
      "src/analysis/summarize_methods.py",
      "src/analysis/plot_overall_accuracy.py",
      "src/analysis/analyze_prompt_variation.py",
      "src/analysis/compare_methods_per_task.py",
      "src/analysis/analyze_cot_overthinking.py",
      "src/analysis/analyze_fewshot_effect.py",
      "src/analysis/generate_html_report.py">>

RunAllScript == "src/run_all_experiments.py"

PipeIdle ==
    /\ raMethods = Unset /\ raExisting = Unset /\ raIdx = Unset /\ raRuns = Unset
    /\ raLog = Unset /\ raExit = Unset /\ raPc = Unset
    /\ pipeStage = Unset /\ pipeStarted = Unset /\ pipeCodes = Unset
    /\ pipeExit = Unset /\ pipePc = Unset

\* the state on entry of run_full_pipeline.main: nothing started; each
\* experiment script is in src/, or one of them has been removed
PipeStart ==
    /\ raMethods = <<>>
    /\ raExisting \in {ExperimentScripts} \cup {ExperimentScripts \ {s} : s \in ExperimentScripts}
    /\ raIdx = 1
    /\ raRuns = <<>>
    /\ raLog = <<>>
    /\ raExit = None
    /\ raPc = "idle"
    /\ pipeStage = 1
    /\ pipeStarted = <<>>
    /\ pipeCodes = <<>>
    /\ pipeExit = None
    /\ pipePc = "main"

RunAllFrame == UNCHANGED <<pipeStage, pipeStarted, pipeCodes, pipeExit, pipePc>>
PipeFrame == UNCHANGED <<raMethods, raExisting, raIdx, raRuns, raLog, raExit>>

\* lines 27-28: load_config returns and methods is the configured list
RunAllLoadConfig ==
    /\ raPc = "load"
    /\ \E methods \in MethodLists : raMethods' = methods
    /\ raPc' = "loop"
    /\ UNCHANGED <<raExisting, raIdx, raRuns, raLog, raExit>>
    /\ RunAllFrame

\* lines 7 and 27: the import of the loader raises, or load_config raises (the
\* configuration file is not found); nothing catches it, so the interpreter
\* ends with status 1 before any experiment
RunAllLoadConfigRaises ==
    /\ raPc = "load"
    /\ raExit' = Some(1)
    /\ raPc' = "raised"
    /\ UNCHANGED <<raMethods, raExisting, raIdx, raRuns, raLog>>
    /\ RunAllFrame

\* lines 41-44: no script is mapped for the method
RunAllSkipUnmapped ==
    /\ raPc = "loop"
    /\ raIdx <= Len(raMethods)
    /\ raMethods[raIdx] \notin DOMAIN ScriptMap
    /\ raLog' = Append(raLog, [level |-> "WARN", method |-> raMethods[raIdx]])
    /\ raIdx' = raIdx + 1
    /\ UNCHANGED <<raMethods, raExisting, raRuns, raExit, raPc>>
    /\ RunAllFrame

\* lines 46-49: the mapped script does not exist
RunAllSkipMissing ==
    /\ raPc = "loop"
    /\ raIdx <= Len(raMethods)
    /\ raMethods[raIdx] \in DOMAIN ScriptMap
    /\ ScriptMap[raMethods[raIdx]] \notin raExisting
    /\ raLog' = Append(raLog, [level |-> "WARN", method |-> raMethods[raIdx]])
    /\ raIdx' = raIdx + 1
    /\ UNCHANGED <<raMethods, raExisting, raRuns, raExit, raPc>>
    /\ RunAllFrame

\* a loop that a failed experiment ends: a mutant
RunAllExperimentBreaks ==
    /\ raPc = "loop"
    /\ raIdx <= Len(raMethods)
    /\ raMethods[raIdx] \in DOMAIN ScriptMap
    /\ ScriptMap[raMethods[raIdx]] \in raExisting
    /\ \E code \in ReturnCodes :
          /\ raRuns' = Append(raRuns, [method |-> raMethods[raIdx],
                                       script |-> ScriptMap[raMethods[raIdx]],
                                       returncode |-> code])
          /\ IF code # 0
             THEN /\ raLog' = Append(raLog, [level |-> "ERROR", method |-> raMethods[raIdx]])
                  /\ raIdx' = Len(raMethods) + 1
             ELSE /\ raLog' = raLog
                  /\ raIdx' = raIdx + 1
    /\ UNCHANGED <<raMethods, raExisting, raExit, raPc>>
    /\ RunAllFrame

\* lines 51-57: the script runs as a subprocess; a non-zero return code makes
\* subprocess.run raise CalledProcessError, which is logged, and the loop
\* continues
RunAllExperiment ==
    /\ raPc = "loop"
    /\ raIdx <= Len(raMethods)
    /\ raMethods[raIdx] \in DOMAIN ScriptMap
    /\ ScriptMap[raMethods[raIdx]] \in raExisting
    /\ \E code \in ReturnCodes :
          /\ raRuns' = Append(raRuns, [method |-> raMethods[raIdx],
                                       script |-> ScriptMap[raMethods[raIdx]],
                                       returncode |-> code])
          /\ raLog' = IF code # 0
                      THEN Append(raLog, [level |-> "ERROR", method |-> raMethods[raIdx]])
                      ELSE raLog
    /\ raIdx' = raIdx + 1
    /\ UNCHANGED <<raMethods, raExisting, raExit, raPc>>
    /\ RunAllFrame

\* a script that reports a failed experiment in its exit status: a mutant
RunAllFinishReportsFailure ==
    /\ raPc = "loop"
    /\ raIdx > Len(raMethods)
    /\ raExit' = IF \E i \in 1..Len(raRuns) : raRuns[i].returncode # 0 THEN Some(1)
                 ELSE Some(0)
    /\ raPc' = "done"
    /\ UNCHANGED <<raMethods, raExisting, raIdx, raRuns, raLog>>
    /\ RunAllFrame

\* line 59: the loop is over and main returns, so the exit status is 0
RunAllFinish ==
    /\ raPc = "loop"
    /\ raIdx > Len(raMethods)
    /\ raExit' = Some(0)
    /\ raPc' = "done"
    /\ UNCHANGED <<raMethods, raExisting, raIdx, raRuns, raLog>>
    /\ RunAllFrame

\* run_step lines 10-17: the next step's script is started
PipelineStartStep ==
    /\ pipePc = "main"
    /\ pipeStage <= Len(Steps)
    /\ pipeStarted' = Append(pipeStarted, Steps[pipeStage])
    /\ pipePc' = "wait"
    /\ raPc' = IF Steps[pipeStage] = RunAllScript THEN "load" ELSE raPc
    /\ UNCHANGED <<pipeStage, pipeCodes, pipeExit>>
    /\ PipeFrame

\* the return code of the step that is running: the exit status of
\* run_all_experiments once it has ended, any return code for an analysis script
StepReturnCodes ==
    IF Steps[pipeStage] = RunAllScript
    THEN IF raPc \in {"done", "raised"} THEN {raExit[1]} ELSE {}
    ELSE ReturnCodes

\* a run_step that only reports a failed step: a mutant
PipelineStepEndsIgnored ==
    /\ pipePc = "wait"
    /\ \E code \in StepReturnCodes :
          /\ pipeCodes' = Append(pipeCodes, code)
          /\ pipeStage' = pipeStage + 1
          /\ pipePc' = "main"
          /\ UNCHANGED pipeExit
    /\ UNCHANGED <<pipeStarted, raPc>>
    /\ PipeFrame

\* run_step lines 17-22: the subprocess ends; with return code 0 run_step
\* returns and main goes on, otherwise sys.exit(e.returncode)
PipelineStepEnds ==
    /\ pipePc = "wait"
    /\ \E code \in StepReturnCodes :
          /\ pipeCodes' = Append(pipeCodes, code)
          /\ IF code = 0
             THEN /\ pipeStage' = pipeStage + 1
                  /\ pipePc' = "main"
                  /\ UNCHANGED pipeExit
             ELSE /\ pipeExit' = Some(ExitStatus(code))
                  /\ pipePc' = "exited"
                  /\ UNCHANGED pipeStage
    /\ UNCHANGED <<pipeStarted, raPc>>
    /\ PipeFrame

\* main lines 80-83: every step returned and main returns
PipelineFinish ==
    /\ pipePc = "main"
    /\ pipeStage > Len(Steps)
    /\ pipeExit' = Some(0)
    /\ pipePc' = "exited"
    /\ UNCHANGED <<pipeStage, pipeStarted, pipeCodes, raPc>>
    /\ PipeFrame

-----------------------------------------------------------------------------
(* The command line (prompt_lab/cli.py): main parses the arguments, exports *)
(* the overrides as environment variables and runs the command's scripts.   *)

AnalyzeScripts ==
    <<"src/analysis/analyze_prompt_variation.py",
      "src/analysis/compare_methods_per_task.py",
      "src/analysis/analyze_cot_overthinking.py",
      "src/analysis/analyze_fewshot_effect.py">>

\* the scripts of each subcommand, lines 110-133
CommandScripts ==
    [full     |-> <<"src/run_full_pipeline.py">>,
     run_all  |-> <<"src/run_all_experiments.py">>,
     baseline |-> <<"src/run_baseline_experiment.py">>,
     cot      |-> <<"src/run_cot_experiment.py">>,
     fewshot  |-> <<"src/run_fewshot_experiment.py">>,
     analyze  |-> AnalyzeScripts,
     report   |-> <<"src/analysis/generate_html_report.py">>]

Commands == DOMAIN CommandScripts

CliScripts == UNION {{CommandScripts[c][i] : i \in 1..Len(CommandScripts[c])} : c \in Commands}

\* the choices of --provider, line 61
CliProviders == {"dummy", "azure"}

OverrideVars ==
    {"PROMPT_LAB_CONFIG", "PROMPT_LAB_PROVIDER", "PROMPT_LAB_DATASET_PATH",
     "PROMPT_LAB_OUTPUT_DIR"}

\* Path(p).is_absolute()
IsAbsolute(p) == Len(p) > 0 /\ SubSeq(p, 1, 1) = "/"

\* str((base / p).resolve()) for a relative p, and p itself for an absolute one
Resolved(base, p) == IF IsAbsolute(p) THEN p ELSE base \o "/" \o p

ProjectRoot == "/repo"
Cwd == "/home/user"

CliArgPool ==
    [command      : Commands,
     config       : {None, Some(""), Some("config/small.yaml")},
     provider     : {None} \cup {Some(p) : p \in CliProviders},
     dataset_path : {None, Some("data/tasks.json"), Some("/data/tasks.json")},
     output_dir   : {None, Some("out")}]

CliIdle ==
    /\ cliArgs = Unset /\ cliExisting = Unset /\ cliEnviron = Unset /\ cliPending = Unset
    /\ cliResults = Unset /\ cliReturn = Unset /\ cliPc = Unset

\* the state when parse_args has returned: each script is in place, or one of
\* them is missing; PROMPT_LAB_PROVIDER may be set by the caller
CliStart ==
    /\ cliArgs \in CliArgPool
    /\ cliExisting \in {CliScripts} \cup {CliScripts \ {s} : s \in CliScripts}
    /\ cliEnviron \in {[v \in OverrideVars |-> None],
                       [v \in OverrideVars |->
                           IF v = "PROMPT_LAB_PROVIDER" THEN Some("openai") ELSE None]}
    /\ cliPending = <<>>
    /\ cliResults = <<>>
    /\ cliReturn = None
    /\ cliPc = "parse"

\* _set_override_env: a variable is set when its argument is given and not empty
SetOverrideEnv(environ, config, provider, dataset_path, output_dir) ==
    LET given(arg) == arg # None /\ arg # Some("")
    IN [v \in OverrideVars |->
           IF v = "PROMPT_LAB_CONFIG" /\ given(config) THEN config
           ELSE IF v = "PROMPT_LAB_PROVIDER" /\ given(provider) THEN provider
           ELSE IF v = "PROMPT_LAB_DATASET_PATH" /\ given(dataset_path) THEN dataset_path
           ELSE IF v = "PROMPT_LAB_OUTPUT_DIR" /\ given(output_dir) THEN output_dir
           ELSE environ[v]]

\* a non-empty relative path made absolute, lines 90-106
Normalized(base, arg) ==
    IF arg = None \/ arg = Some("") THEN arg ELSE Some(Resolved(base, arg[1]))

\* lines 86-108 and the choice of the command's scripts
CliSetUp ==
    /\ cliPc = "parse"
    /\ cliEnviron' = SetOverrideEnv(cliEnviron,
                                    Normalized(ProjectRoot, cliArgs.config),
                                    cliArgs.provider,
                                    Normalized(Cwd, cliArgs.dataset_path),
                                    Normalized(Cwd, cliArgs.output_dir))
    /\ cliPending' = CommandScripts[cliArgs.command]
    /\ cliPc' = "dispatch"
    /\ UNCHANGED <<cliArgs, cliExisting, cliResults, cliReturn>>

\* an analyze loop that goes on after a failed script: a mutant
CliAfterScriptGoesOn(rc) ==
    /\ cliPending' = Tail(cliPending)
    /\ IF cliArgs.command # "analyze" \/ Tail(cliPending) = <<>>
       THEN cliReturn' = Some(rc) /\ cliPc' = "returned"
       ELSE UNCHANGED <<cliReturn, cliPc>>

\* what main does with the value rc of a call of _run_script: every command
\* but analyze returns it; analyze returns it when it is not 0, goes on to the
\* next script otherwise, and returns 0 after the last
CliAfterScript(rc) ==
    IF cliArgs.command # "analyze" \/ rc # 0
    THEN /\ cliReturn' = Some(rc)
         /\ cliPc' = "returned"
         /\ cliPending' = Tail(cliPending)
    ELSE /\ cliPending' = Tail(cliPending)
         /\ IF Tail(cliPending) = <<>>
            THEN cliReturn' = Some(0) /\ cliPc' = "returned"
            ELSE UNCHANGED <<cliReturn, cliPc>>

\* _run_script lines 44-47: the script does not exist
CliScriptMissing ==
    /\ cliPc = "dispatch"
    /\ cliPending # <<>>
    /\ Head(cliPending) \notin cliExisting
    /\ cliResults' = Append(cliResults,
                            [script |-> Head(cliPending), spawned |-> FALSE, rc |-> 2])
    /\ CliAfterScript(2)
    /\ UNCHANGED <<cliArgs, cliExisting, cliEnviron>>

\* _run_script lines 48-49: subprocess.call runs the script and returns its
\* return code
CliScriptRuns ==
    /\ cliPc = "dispatch"
    /\ cliPending # <<>>
    /\ Head(cliPending) \in cliExisting
    /\ \E rc \in ReturnCodes :
          /\ cliResults' = Append(cliResults,
                                  [script |-> Head(cliPending), spawned |-> TRUE, rc |-> rc])
          /\ CliAfterScript(rc)
    /\ UNCHANGED <<cliArgs, cliExisting, cliEnviron>>

-----------------------------------------------------------------------------
(* The configuration loader (prompt_lab/config/loader.py): load_config with *)
(* get_default_config_path and the environment overrides.                   *)

\* the parsed YAML of a configuration file, with the keys load_config reads
\* that the overrides touch; None for a key the file does not have
RawConfig(provider, dataset, dataset_path, output_dir) ==
    [provider |-> provider, dataset |-> dataset, dataset_path |-> dataset_path,
     output_dir |-> output_dir]

DefaultConfigPath == ProjectRoot \o "/config/default.yaml"

\* the configuration files of the file system and what each holds
ConfigFiles ==
    [p \in {DefaultConfigPath, ProjectRoot \o "/config/small.yaml", "/etc/lab.yaml",
            "/tmp/explicit.yaml"} |->
        IF p = DefaultConfigPath
        THEN RawConfig(Some("dummy"), Some("dummy"), Some("data/tasks.json"), Some("results"))
        ELSE IF p = ProjectRoot \o "/config/small.yaml"
        THEN RawConfig(Some("openai"), Some("file"), Some("data/small.json"), None)
        ELSE IF p = "/etc/lab.yaml"
        THEN RawConfig(None, Some("dummy"), None, Some("runs"))
        ELSE RawConfig(Some("dummy"), None, None, None)]

ConfigEnvirons ==
    {[v \in OverrideVars |->
         IF v = "PROMPT_LAB_CONFIG" THEN c
         ELSE IF v = "PROMPT_LAB_PROVIDER" THEN p
         ELSE IF v = "PROMPT_LAB_DATASET_PATH" THEN d
         ELSE o] :
        c \in {None, Some(""), Some("config/small.yaml"), Some("/etc/lab.yaml")},
        p \in {None, Some(""), Some("azure")},
        d \in {None, Some("/data/mine.json")},
        o \in {None, Some(""), Some("/home/user/out")}}

\* `if value:` for the value of os.getenv: set, and not the empty string
Given(value) == value # None /\ value # Some("")

\* dict.get(key, default)
GetOr(value, default) == IF value = None THEN default ELSE value[1]

\* get_default_config_path
GetDefaultConfigPath(environ) ==
    IF Given(environ["PROMPT_LAB_CONFIG"])
    THEN IF IsAbsolute(environ["PROMPT_LAB_CONFIG"][1])
         THEN environ["PROMPT_LAB_CONFIG"][1]
         ELSE ProjectRoot \o "/" \o environ["PROMPT_LAB_CONFIG"][1]
    ELSE DefaultConfigPath

\* load_config that leaves experiment.dataset alone: a mutant
AppConfigDatasetKept(raw, environ) ==
    [provider     |-> IF Given(environ["PROMPT_LAB_PROVIDER"])
                      THEN environ["PROMPT_LAB_PROVIDER"][1] ELSE GetOr(raw.provider, ""),
     dataset      |-> GetOr(raw.dataset, ""),
     dataset_path |-> IF Given(environ["PROMPT_LAB_DATASET_PATH"])
                      THEN environ["PROMPT_LAB_DATASET_PATH"][1]
                      ELSE GetOr(raw.dataset_path, ""),
     output_dir   |-> IF Given(environ["PROMPT_LAB_OUTPUT_DIR"])
                      THEN environ["PROMPT_LAB_OUTPUT_DIR"][1]
                      ELSE GetOr(raw.output_dir, "results")]

\* load_config lines 94-144: the fields of the AppConfig built from the parsed
\* file raw, then the overrides
AppConfig(raw, environ) ==
    [provider     |-> IF Given(environ["PROMPT_LAB_PROVIDER"])
                      THEN environ["PROMPT_LAB_PROVIDER"][1] ELSE GetOr(raw.provider, ""),
     dataset      |-> IF Given(environ["PROMPT_LAB_DATASET_PATH"]) THEN "file"
                      ELSE GetOr(raw.dataset, ""),
     dataset_path |-> IF Given(environ["PROMPT_LAB_DATASET_PATH"])
                      THEN environ["PROMPT_LAB_DATASET_PATH"][1]
                      ELSE GetOr(raw.dataset_path, ""),
     output_dir   |-> IF Given(environ["PROMPT_LAB_OUTPUT_DIR"])
                      THEN environ["PROMPT_LAB_OUTPUT_DIR"][1]
                      ELSE GetOr(raw.output_dir, "results")]

ConfigIdle ==
    /\ cfgPath = Unset /\ cfgFile = Unset /\ cfgEnviron = Unset /\ cfgExisting = Unset
    /\ cfgResult = Unset /\ cfgPc = Unset

\* the state on entry of load_config: called with no path, with a file that
\* exists or with one that does not
ConfigStart ==
    /\ cfgPath \in {None, Some("/tmp/explicit.yaml"), Some("/tmp/nothing.yaml")}
    /\ cfgFile = None
    /\ cfgEnviron \in ConfigEnvirons
    /\ cfgExisting \in {DOMAIN ConfigFiles} \cup {DOMAIN ConfigFiles \ {p} : p \in DOMAIN ConfigFiles}
    /\ cfgResult = None
    /\ cfgPc = "enter"

\* lines 85-86
LoadConfigEnter ==
    /\ cfgPc = "enter"
    /\ cfgFile' = IF cfgPath = None THEN Some(GetDefaultConfigPath(cfgEnviron)) ELSE cfgPath
    /\ cfgPc' = "open"
    /\ UNCHANGED <<cfgPath, cfgEnviron, cfgExisting, cfgResult>>

\* lines 88-89
LoadConfigNotFound ==
    /\ cfgPc = "open"
    /\ cfgFile[1] \notin cfgExisting
    /\ cfgResult' = Some(Raised(Exc("FileNotFoundError", "Config file not found")))
    /\ cfgPc' = "done"
    /\ UNCHANGED <<cfgPath, cfgFile, cfgEnviron, cfgExisting>>

\* lines 91-144
LoadConfigRead ==
    /\ cfgPc = "open"
    /\ cfgFile[1] \in cfgExisting
    /\ cfgResult' = Some(Returned(AppConfig(ConfigFiles[cfgFile[1]], cfgEnviron)))
    /\ cfgPc' = "done"
    /\ UNCHANGED <<cfgPath, cfgFile, cfgEnviron, cfgExisting>>

-----------------------------------------------------------------------------
(* The configured experiment scripts (run_cot_experiment.py and            *)
(* run_fewshot_experiment.py): load_config, the dataset, the client chosen  *)
(* by model.provider, the method's run, compute_accuracy and the two files. *)

\* the string of a text of tokens
RECURSIVE StringOfText(_)
StringOfText(text) ==
    IF text = <<>> THEN ""
    ELSE IF Len(text) = 1 THEN text[1]
    ELSE LET half == Len(text) \div 2
         IN StringOfText(SubSeq(text, 1, half))
                \o StringOfText(SubSeq(text, half + 1, Len(text)))

\* the JSON file at the dataset_path of config/small.yaml
SmallDataset ==
    << [id |-> JStr("t1"), task_type |-> "math", input_text |-> TextSeven,
        ground_truth |-> JStr(<<"1", "2">>)] >>

\* cfg.fewshot_examples
ConfiguredExamples == << FewShotExample("2+2", "4") >>

\* the prompt text the method sends and stores for a variant: CoTMethod with
\* CoTConfig(), FewShotMethod with FewShotConfig(examples=cfg.fewshot_examples)
MethodPromptText(script, p) ==
    IF script = "cot"
    THEN WrapPromptText([add_prefix |-> TRUE, add_suffix |-> TRUE], StringOfText(p.prompt_text))
    ELSE BuildFewshotPrompt([examples |-> ConfiguredExamples, add_instruction |-> TRUE],
                            StringOfText(p.prompt_text))

\* what the remote model may answer for a task with ground truth gt: the
\* truth, the truth with a full stop, the truth followed by a digit
RemoteAnswers(gt) == {gt, gt \o <<".">>, gt \o <<"3">>}

ScriptEnvirons ==
    {[v \in OverrideVars |->
         IF v = "PROMPT_LAB_CONFIG" THEN c
         ELSE IF v = "PROMPT_LAB_PROVIDER" THEN p
         ELSE None] :
        c \in {None, Some("config/small.yaml"), Some("/etc/lab.yaml"), Some("/tmp/explicit.yaml")},
        p \in {None} \cup {Some(x) : x \in CliProviders}}

ScriptIdle ==
    /\ scrScript = Unset /\ scrEnviron = Unset /\ scrOpenAIReady = Unset /\ scrCfg = Unset
    /\ scrTasks = Unset /\ scrPrompts = Unset /\ scrClient = Unset /\ scrSent = Unset
    /\ scrPredictions = Unset /\ scrEval = Unset /\ scrRows = Unset /\ scrMetrics = Unset
    /\ scrError = Unset /\ scrPc = Unset

\* the state when the script is started: the environment as the command line
\* leaves it, every configuration file in place
ScriptStart ==
    /\ scrScript \in {"cot", "fewshot"}
    /\ scrEnviron \in ScriptEnvirons
    /\ scrOpenAIReady \in BOOLEAN
    /\ scrCfg = None
    /\ scrTasks = <<>>
    /\ scrPrompts = <<>>
    /\ scrClient = None
    /\ scrSent = 0
    /\ scrPredictions = <<>>
    /\ scrEval = None
    /\ scrRows = None
    /\ scrMetrics = None
    /\ scrError = None
    /\ scrPc = "start"

ScriptRaise(kind, message) ==
    /\ scrError' = Some(Exc(kind, message))
    /\ scrPc' = "raised"

\* cfg = load_config()
ScriptLoadConfig ==
    /\ scrPc = "start"
    /\ scrCfg' = Some(AppConfig(ConfigFiles[GetDefaultConfigPath(scrEnviron)], scrEnviron))
    /\ scrPc' = "data"
    /\ UNCHANGED <<scrScript, scrEnviron, scrOpenAIReady, scrTasks, scrPrompts, scrClient,
                   scrSent, scrPredictions, scrEval, scrRows, scrMetrics, scrError>>

\* an import of the script raises before main is entered
ScriptImportRaises ==
    /\ scrPc = "start"
    /\ ScriptRaise("ImportError", "cannot import name")
    /\ UNCHANGED <<scrScript, scrEnviron, scrOpenAIReady, scrCfg, scrTasks, scrPrompts,
                   scrClient, scrSent, scrPredictions, scrEval, scrRows, scrMetrics>>

\* the dataset chosen by cfg.experiment.dataset, build_prompt_variants
ScriptPrepareData ==
    /\ scrPc = "data"
    /\ IF scrCfg[1].dataset \in {"dummy", "file"}
       THEN LET tasks == IF scrCfg[1].dataset = "dummy" THEN GenerateDummyTasks
                         ELSE TasksOfItems(SmallDataset)
            IN /\ scrTasks' = tasks
               /\ scrPrompts' = BuildPromptVariants(tasks)
               /\ scrPc' = "client"
               /\ UNCHANGED scrError
       ELSE /\ ScriptRaise("ValueError", "Unknown dataset type")
            /\ UNCHANGED <<scrTasks, scrPrompts>>
    /\ UNCHANGED <<scrScript, scrEnviron, scrOpenAIReady, scrCfg, scrClient, scrSent,
                   scrPredictions, scrEval, scrRows, scrMetrics>>

\* a run_cot_experiment that falls back to the fake client: a mutant
ScriptChooseClientFallback ==
    /\ scrPc = "client"
    /\ IF scrCfg[1].provider = "openai" /\ ~scrOpenAIReady
       THEN /\ ScriptRaise("ValueError", "OPENAI_API_KEY is not set")
            /\ UNCHANGED scrClient
       ELSE /\ scrClient' = Some(IF scrCfg[1].provider = "openai" THEN "openai" ELSE "dummy")
            /\ scrPc' = "run"
            /\ UNCHANGED scrError
    /\ UNCHANGED <<scrScript, scrEnviron, scrOpenAIReady, scrCfg, scrTasks, scrPrompts,
                   scrSent, scrPredictions, scrEval, scrRows, scrMetrics>>

\* the client chosen by cfg.model.provider: run_cot_experiment raises
\* ValueError for a provider other than "openai" and "dummy",
\* run_fewshot_experiment takes DummyLLMClient for every provider but "openai";
\* OpenAILLMClient() raises without the package or the key
ScriptChooseClient ==
    /\ scrPc = "client"
    /\ IF scrCfg[1].provider = "openai"
       THEN IF scrOpenAIReady
            THEN scrClient' = Some("openai") /\ scrPc' = "run" /\ UNCHANGED scrError
            ELSE ScriptRaise("ValueError", "OPENAI_API_KEY is not set") /\ UNCHANGED scrClient
       ELSE IF scrCfg[1].provider = "dummy" \/ scrScript = "fewshot"
            THEN scrClient' = Some("dummy") /\ scrPc' = "run" /\ UNCHANGED scrError
            ELSE ScriptRaise("ValueError", "Unknown model provider") /\ UNCHANGED scrClient
    /\ UNCHANGED <<scrScript, scrEnviron, scrOpenAIReady, scrCfg, scrTasks, scrPrompts,
                   scrSent, scrPredictions, scrEval, scrRows, scrMetrics>>

\* one iteration of the method's run: the prompt is built and sent; the fake
\* client answers as DummyLLMClient.complete does, the remote client with
\* whatever the service answers or with an exception, which ends the script
ScriptRunIteration ==
    /\ scrPc = "run"
    /\ Len(scrPredictions) < Len(scrPrompts)
    /\ scrSent' = scrSent + 1
    /\ LET p    == scrPrompts[Len(scrPredictions) + 1]
           text == MethodPromptText(scrScript, p)
           gt   == TruthById(scrTasks)[p.task_id]
       IN IF scrClient = Some("dummy")
          THEN LET response == DummyResponse(LLMRequest(CharsOfString(MethodParams.model_name),
                                                        CharsOfString(text),
                                                        MethodParams.temperature,
                                                        MethodParams.max_tokens))
               IN /\ scrPredictions' = Append(scrPredictions,
                         BaselineResult(p.task_id, p.length, text, response.text,
                                        response.tokens_input, response.tokens_output))
                  /\ UNCHANGED <<scrError, scrPc>>
          ELSE \/ \E answer \in RemoteAnswers(gt) :
                     /\ scrPredictions' = Append(scrPredictions,
                            BaselineResult(p.task_id, p.length, text, answer, None, None))
                     /\ UNCHANGED <<scrError, scrPc>>
               \/ /\ ScriptRaise("APIError", "request failed")
                  /\ UNCHANGED scrPredictions
    /\ UNCHANGED <<scrScript, scrEnviron, scrOpenAIReady, scrCfg, scrTasks, scrPrompts,
                   scrClient, scrEval, scrRows, scrMetrics>>

\* eval_result = compute_accuracy(tasks, predictions)
ScriptEvaluate ==
    /\ scrPc = "run"
    /\ Len(scrPredictions) = Len(scrPrompts)
    /\ scrEval' = Some(ComputeAccuracy(scrTasks, scrPredictions))
    /\ scrPc' = "write"
    /\ UNCHANGED <<scrScript, scrEnviron, scrOpenAIReady, scrCfg, scrTasks, scrPrompts,
                   scrClient, scrSent, scrPredictions, scrRows, scrMetrics, scrError>>

\* a row marked correct when the answer begins with the ground truth: a mutant
ScriptRowPrefix(p, truth_by_id) ==
    PredictionRow(p, truth_by_id[p.task_id],
                  IF /\ Len(p.predicted_answer) >= Len(truth_by_id[p.task_id])
                     /\ SubSeq(p.predicted_answer, 1, Len(truth_by_id[p.task_id]))
                            = truth_by_id[p.task_id]
                  THEN 1 ELSE 0)

\* the row written for a prediction: the ground truth of its task and whether
\* the raw answer equals it
ScriptRow(p, truth_by_id) ==
    PredictionRow(p, truth_by_id[p.task_id],
                  IF p.predicted_answer = truth_by_id[p.task_id] THEN 1 ELSE 0)

\* the predictions file: the header and one row per prediction
ScriptWritePredictions ==
    /\ scrPc = "write"
    /\ scrRows' = Some([i \in 1..Len(scrPredictions) |->
                           ScriptRow(scrPredictions[i], TruthById(scrTasks))])
    /\ scrPc' = "metrics"
    /\ UNCHANGED <<scrScript, scrEnviron, scrOpenAIReady, scrCfg, scrTasks, scrPrompts,
                   scrClient, scrSent, scrPredictions, scrEval, scrMetrics, scrError>>

\* the metrics file
ScriptWriteMetrics ==
    /\ scrPc = "metrics"
    /\ scrMetrics' = Some(scrEval[1])
    /\ scrPc' = "done"
    /\ UNCHANGED <<scrScript, scrEnviron, scrOpenAIReady, scrCfg, scrTasks, scrPrompts,
                   scrClient, scrSent, scrPredictions, scrEval, scrRows, scrError>>

-----------------------------------------------------------------------------
(* The specifications: one per component, the others idle *)

\* _normalize_label applied to an input and to an alternative of it
InitNorm == NormStart /\ AccIdle /\ RunIdle /\ GenIdle /\ DummyIdle /\ QueryIdle /\ ExpIdle /\ PipeIdle /\ CliIdle /\ ConfigIdle /\ ScriptIdle
NextNorm ==
    \/ NormalizeArg /\ UNCHANGED <<accVars, runVars, genVars, dummyVars, qryVars, expVars, pipeVars, cliVars, cfgVars, scrVars>>
    \/ NormalizeAlt /\ UNCHANGED <<accVars, runVars, genVars, dummyVars, qryVars, expVars, pipeVars, cliVars, cfgVars, scrVars>>
SpecNorm == InitNorm /\ [][NextNorm]_vars

\* compute_accuracy on enumerated tasks and predictions
InitAcc == AccStart /\ NormIdle /\ RunIdle /\ GenIdle /\ DummyIdle /\ QueryIdle /\ ExpIdle /\ PipeIdle /\ CliIdle /\ ConfigIdle /\ ScriptIdle
NextAcc ==
    \/ AccEnter /\ UNCHANGED <<normVars, runVars, genVars, dummyVars, qryVars, expVars, pipeVars, cliVars, cfgVars, scrVars>>
    \/ AccLoopUnknown /\ UNCHANGED <<normVars, runVars, genVars, dummyVars, qryVars, expVars, pipeVars, cliVars, cfgVars, scrVars>>
    \/ AccLoopKnown /\ UNCHANGED <<normVars, runVars, genVars, dummyVars, qryVars, expVars, pipeVars, cliVars, cfgVars, scrVars>>
    \/ AccReturn /\ UNCHANGED <<normVars, runVars, genVars, dummyVars, qryVars, expVars, pipeVars, cliVars, cfgVars, scrVars>>
SpecAcc == InitAcc /\ [][NextAcc]_vars

\* run of each prompting method on enumerated variants, with a client whose
\* calls return any response or raise
InitRun == RunStart /\ NormIdle /\ AccIdle /\ GenIdle /\ DummyIdle /\ QueryIdle /\ ExpIdle /\ PipeIdle /\ CliIdle /\ ConfigIdle /\ ScriptIdle
NextRun ==
    \/ BaselineCallReturns /\ UNCHANGED <<normVars, accVars, genVars, dummyVars, qryVars, expVars, pipeVars, cliVars, cfgVars, scrVars>>
    \/ BaselineCallRaises /\ UNCHANGED <<normVars, accVars, genVars, dummyVars, qryVars, expVars, pipeVars, cliVars, cfgVars, scrVars>>
    \/ BaselineReturn /\ UNCHANGED <<normVars, accVars, genVars, dummyVars, qryVars, expVars, pipeVars, cliVars, cfgVars, scrVars>>
    \/ CoTCallReturns /\ UNCHANGED <<normVars, accVars, genVars, dummyVars, qryVars, expVars, pipeVars, cliVars, cfgVars, scrVars>>
    \/ CoTCallRaises /\ UNCHANGED <<normVars, accVars, genVars, dummyVars, qryVars, expVars, pipeVars, cliVars, cfgVars, scrVars>>
    \/ CoTReturn /\ UNCHANGED <<normVars, accVars, genVars, dummyVars, qryVars, expVars, pipeVars, cliVars, cfgVars, scrVars>>
    \/ FewShotCallReturns /\ UNCHANGED <<normVars, accVars, genVars, dummyVars, qryVars, expVars, pipeVars, cliVars, cfgVars, scrVars>>
    \/ FewShotCallRaises /\ UNCHANGED <<normVars, accVars, genVars, dummyVars, qryVars, expVars, pipeVars, cliVars, cfgVars, scrVars>>
    \/ FewShotReturn /\ UNCHANGED <<normVars, accVars, genVars, dummyVars, qryVars, expVars, pipeVars, cliVars, cfgVars, scrVars>>
SpecRun == InitRun /\ [][NextRun]_vars

\* the dataset side of an experiment script
InitGen == GenStart /\ NormIdle /\ AccIdle /\ RunIdle /\ DummyIdle /\ QueryIdle /\ ExpIdle /\ PipeIdle /\ CliIdle /\ ConfigIdle /\ ScriptIdle
NextGen ==
    \/ GenLoadDummy /\ UNCHANGED <<normVars, accVars, runVars, dummyVars, qryVars, expVars, pipeVars, cliVars, cfgVars, scrVars>>
    \/ GenLoadFile /\ UNCHANGED <<normVars, accVars, runVars, dummyVars, qryVars, expVars, pipeVars, cliVars, cfgVars, scrVars>>
    \/ GenLoadFileMissing /\ UNCHANGED <<normVars, accVars, runVars, dummyVars, qryVars, expVars, pipeVars, cliVars, cfgVars, scrVars>>
    \/ GenLoadUnknown /\ UNCHANGED <<normVars, accVars, runVars, dummyVars, qryVars, expVars, pipeVars, cliVars, cfgVars, scrVars>>
    \/ GenBuildTask /\ UNCHANGED <<normVars, accVars, runVars, dummyVars, qryVars, expVars, pipeVars, cliVars, cfgVars, scrVars>>
    \/ GenBuildRaises /\ UNCHANGED <<normVars, accVars, runVars, dummyVars, qryVars, expVars, pipeVars, cliVars, cfgVars, scrVars>>
    \/ GenBuildReturn /\ UNCHANGED <<normVars, accVars, runVars, dummyVars, qryVars, expVars, pipeVars, cliVars, cfgVars, scrVars>>
SpecGen == InitGen /\ [][NextGen]_vars

\* calls of DummyLLMClient.complete on enumerated requests
InitDummy == DummyStart /\ NormIdle /\ AccIdle /\ RunIdle /\ GenIdle /\ QueryIdle /\ ExpIdle /\ PipeIdle /\ CliIdle /\ ConfigIdle /\ ScriptIdle
NextDummy ==
    \/ DummyComplete /\ UNCHANGED <<normVars, accVars, runVars, genVars, qryVars, expVars, pipeVars, cliVars, cfgVars, scrVars>>
SpecDummy == InitDummy /\ [][NextDummy]_vars

\* one call of llm_query on enumerated arguments, environments and API outcomes
InitQuery == QueryStart /\ NormIdle /\ AccIdle /\ RunIdle /\ GenIdle /\ DummyIdle /\ ExpIdle /\ PipeIdle /\ CliIdle /\ ConfigIdle /\ ScriptIdle
NextQuery ==
    \/ QueryValidate /\ UNCHANGED <<normVars, accVars, runVars, genVars, dummyVars, expVars, pipeVars, cliVars, cfgVars, scrVars>>
    \/ QueryLoadConfiguration /\ UNCHANGED <<normVars, accVars, runVars, genVars, dummyVars, expVars, pipeVars, cliVars, cfgVars, scrVars>>
    \/ QuerySelectModel /\ UNCHANGED <<normVars, accVars, runVars, genVars, dummyVars, expVars, pipeVars, cliVars, cfgVars, scrVars>>
    \/ QueryCreateClient /\ UNCHANGED <<normVars, accVars, runVars, genVars, dummyVars, expVars, pipeVars, cliVars, cfgVars, scrVars>>
    \/ QueryCreateClientRaises /\ UNCHANGED <<normVars, accVars, runVars, genVars, dummyVars, expVars, pipeVars, cliVars, cfgVars, scrVars>>
    \/ QueryCallApi /\ UNCHANGED <<normVars, accVars, runVars, genVars, dummyVars, expVars, pipeVars, cliVars, cfgVars, scrVars>>
SpecQuery == InitQuery /\ [][NextQuery]_vars

\* main of run_baseline_experiment.py, and the same steps for a constructor
\* call that passes model_name
InitExp ==
    ExpStart /\ NormIdle /\ AccIdle /\ RunIdle /\ GenIdle /\ DummyIdle /\ QueryIdle /\ PipeIdle /\ CliIdle /\ ConfigIdle /\ ScriptIdle
NextExp ==
    \/ ExpPrepare /\ UNCHANGED <<normVars, accVars, runVars, genVars, dummyVars, qryVars, pipeVars, cliVars, cfgVars, scrVars>>
    \/ ExpConstruct /\ UNCHANGED <<normVars, accVars, runVars, genVars, dummyVars, qryVars, pipeVars, cliVars, cfgVars, scrVars>>
    \/ ExpRunIteration /\ UNCHANGED <<normVars, accVars, runVars, genVars, dummyVars, qryVars, pipeVars, cliVars, cfgVars, scrVars>>
    \/ ExpEvaluate /\ UNCHANGED <<normVars, accVars, runVars, genVars, dummyVars, qryVars, pipeVars, cliVars, cfgVars, scrVars>>
    \/ ExpWriteHeader /\ UNCHANGED <<normVars, accVars, runVars, genVars, dummyVars, qryVars, pipeVars, cliVars, cfgVars, scrVars>>
    \/ ExpWriteRow /\ UNCHANGED <<normVars, accVars, runVars, genVars, dummyVars, qryVars, pipeVars, cliVars, cfgVars, scrVars>>
    \/ ExpWriteMetrics /\ UNCHANGED <<normVars, accVars, runVars, genVars, dummyVars, qryVars, pipeVars, cliVars, cfgVars, scrVars>>
SpecExp == InitExp /\ [][NextExp]_vars

\* run_full_pipeline.py, with run_all_experiments.py as its first step
InitPipe ==
    PipeStart /\ NormIdle /\ AccIdle /\ RunIdle /\ GenIdle /\ DummyIdle /\ QueryIdle /\ ExpIdle /\ CliIdle /\ ConfigIdle /\ ScriptIdle
NextPipe ==
    \/ PipelineStartStep /\ UNCHANGED <<normVars, accVars, runVars, genVars, dummyVars, qryVars, expVars, cliVars, cfgVars, scrVars>>
    \/ PipelineStepEnds /\ UNCHANGED <<normVars, accVars, runVars, genVars, dummyVars, qryVars, expVars, cliVars, cfgVars, scrVars>>
    \/ PipelineFinish /\ UNCHANGED <<normVars, accVars, runVars, genVars, dummyVars, qryVars, expVars, cliVars, cfgVars, scrVars>>
    \/ RunAllLoadConfig /\ UNCHANGED <<normVars, accVars, runVars, genVars, dummyVars, qryVars, expVars, cliVars, cfgVars, scrVars>>
    \/ RunAllLoadConfigRaises /\ UNCHANGED <<normVars, accVars, runVars, genVars, dummyVars, qryVars, expVars, cliVars, cfgVars, scrVars>>
    \/ RunAllSkipUnmapped /\ UNCHANGED <<normVars, accVars, runVars, genVars, dummyVars, qryVars, expVars, cliVars, cfgVars, scrVars>>
    \/ RunAllSkipMissing /\ UNCHANGED <<normVars, accVars, runVars, genVars, dummyVars, qryVars, expVars, cliVars, cfgVars, scrVars>>
    \/ RunAllExperiment /\ UNCHANGED <<normVars, accVars, runVars, genVars, dummyVars, qryVars, expVars, cliVars, cfgVars, scrVars>>
    \/ RunAllFinish /\ UNCHANGED <<normVars, accVars, runVars, genVars, dummyVars, qryVars, expVars, cliVars, cfgVars, scrVars>>
SpecPipe == InitPipe /\ [][NextPipe]_vars

\* prompt_lab.cli.main
InitCli ==
    CliStart /\ NormIdle /\ AccIdle /\ RunIdle /\ GenIdle /\ DummyIdle /\ QueryIdle /\ ExpIdle /\ PipeIdle /\ ConfigIdle /\ ScriptIdle
NextCli ==
    \/ CliSetUp /\ UNCHANGED <<normVars, accVars, runVars, genVars, dummyVars, qryVars, expVars, pipeVars, cfgVars, scrVars>>
    \/ CliScriptMissing /\ UNCHANGED <<normVars, accVars, runVars, genVars, dummyVars, qryVars, expVars, pipeVars, cfgVars, scrVars>>
    \/ CliScriptRuns /\ UNCHANGED <<normVars, accVars, runVars, genVars, dummyVars, qryVars, expVars, pipeVars, cfgVars, scrVars>>
SpecCli == InitCli /\ [][NextCli]_vars

\* load_config
InitConfig ==
    ConfigStart /\ NormIdle /\ AccIdle /\ RunIdle /\ GenIdle /\ DummyIdle /\ QueryIdle /\ ExpIdle /\ PipeIdle /\ CliIdle /\ ScriptIdle
NextConfig ==
    \/ LoadConfigEnter /\ UNCHANGED <<normVars, accVars, runVars, genVars, dummyVars, qryVars, expVars, pipeVars, cliVars, scrVars>>
    \/ LoadConfigNotFound /\ UNCHANGED <<normVars, accVars, runVars, genVars, dummyVars, qryVars, expVars, pipeVars, cliVars, scrVars>>
    \/ LoadConfigRead /\ UNCHANGED <<normVars, accVars, runVars, genVars, dummyVars, qryVars, expVars, pipeVars, cliVars, scrVars>>
SpecConfig == InitConfig /\ [][NextConfig]_vars

\* main of run_cot_experiment.py and of run_fewshot_experiment.py
InitScript ==
    ScriptStart /\ NormIdle /\ AccIdle /\ RunIdle /\ GenIdle /\ DummyIdle /\ QueryIdle /\ ExpIdle /\ PipeIdle /\ CliIdle /\ ConfigIdle
NextScript ==
    \/ ScriptLoadConfig /\ UNCHANGED <<normVars, accVars, runVars, genVars, dummyVars, qryVars, expVars, pipeVars, cliVars, cfgVars>>
    \/ ScriptImportRaises /\ UNCHANGED <<normVars, accVars, runVars, genVars, dummyVars, qryVars, expVars, pipeVars, cliVars, cfgVars>>
    \/ ScriptPrepareData /\ UNCHANGED <<normVars, accVars, runVars, genVars, dummyVars, qryVars, expVars, pipeVars, cliVars, cfgVars>>
    \/ ScriptChooseClient /\ UNCHANGED <<normVars, accVars, runVars, genVars, dummyVars, qryVars, expVars, pipeVars, cliVars, cfgVars>>
    \/ ScriptRunIteration /\ UNCHANGED <<normVars, accVars, runVars, genVars, dummyVars, qryVars, expVars, pipeVars, cliVars, cfgVars>>
    \/ ScriptEvaluate /\ UNCHANGED <<normVars, accVars, runVars, genVars, dummyVars, qryVars, expVars, pipeVars, cliVars, cfgVars>>
    \/ ScriptWritePredictions /\ UNCHANGED <<normVars, accVars, runVars, genVars, dummyVars, qryVars, expVars, pipeVars, cliVars, cfgVars>>
    \/ ScriptWriteMetrics /\ UNCHANGED <<normVars, accVars, runVars, genVars, dummyVars, qryVars, expVars, pipeVars, cliVars, cfgVars>>
SpecScript == InitScript /\ [][NextScript]_vars

-----------------------------------------------------------------------------
(* Properties of _normalize_label (SpecNorm) *)

\* C2: _normalize_label gives the same result for two strings that differ only
\* in letter case, in leading or trailing whitespace, or in a trailing run of
\* characters that are neither word characters nor hyphens; "positive.",
\* "POSITIVE" and "positive  " all normalize to "positive".
NormalizeIgnoresCaseSpaceTail ==
    /\ (normRes # Unset /\ normAltRes # Unset) => normRes = normAltRes
    /\ (normRes # Unset /\ normArg \in {Some(PositiveDot), Some(PositiveUp), Some(PositiveSp)})
          => normRes = Some(Positive)

\* "positive." and "positive. " have both been normalized
NormalizeIgnoresWitness ==
    /\ normArg = Some(PositiveDot) /\ normAlt = Some(PositiveDot \o <<" ">>)
    /\ normRes = Some(Positive) /\ normAltRes = Some(Positive)

\* the input without its leading and trailing whitespace, lower-cased
TrimmedLower(o) ==
    IF o = None THEN <<>>
    ELSE LET s == o[1]
             solid == {i \in 1..Len(s) : ~IsSpace(s[i])}
         IN IF solid = {} THEN <<>>
            ELSE LET first == CHOOSE i \in solid : \A j \in solid : i <= j
                     last  == CHOOSE i \in solid : \A j \in solid : j <= i
                 IN [i \in 1..(last - first + 1) |-> LowerChar(s[first + i - 1])]

\* the number of hyphens and word characters of a string
KeptCount(s) == Cardinality({i \in 1..Len(s) : ~IsStripped(s[i])})

\* C3: _normalize_label never removes a hyphen or a word character: the result
\* is the trimmed, lower-cased input with only a trailing run of non-word,
\* non-hyphen characters cut off; internal and trailing hyphens are kept and
\* nothing is removed from the start or the middle.
NormalizeKeepsHyphensAndWords ==
    normRes # Unset =>
        LET u == TrimmedLower(normArg)
            r == normRes[1]
        IN /\ Len(r) <= Len(u)
           /\ r = SubSeq(u, 1, Len(r))
           /\ \A i \in (Len(r) + 1)..Len(u) : IsStripped(u[i])
           /\ KeptCount(r) = KeptCount(IF normArg = None THEN <<>> ELSE normArg[1])
           /\ normArg = Some(WellFormed) => r = wellFormed

\* "a-." has been normalized to "a-": the trailing hyphen is kept, the dot cut
NormalizeKeepsWitness ==
    /\ normArg = Some(<<"a", "-", ".">>)
    /\ normRes = Some(<<"a", "-">>)

-----------------------------------------------------------------------------
(* Properties of compute_accuracy (SpecAcc) *)

\* the task_id is the id of one of the tasks
KnownId(id) == \E j \in 1..Len(accTasks) : accTasks[j].id = id

\* the ground truth a lookup by id yields: that of the last task with the id
TruthFor(id) ==
    LET last == CHOOSE j \in 1..Len(accTasks) :
                    /\ accTasks[j].id = id
                    /\ \A k \in (j + 1)..Len(accTasks) : accTasks[k].id # id
    IN accTasks[last].ground_truth

\* the predictions among the first n that count as correct
CorrectAmong(n) ==
    {i \in 1..n :
        /\ KnownId(accPreds[i].task_id)
        /\ NormalizeLabel(Some(accPreds[i].predicted_answer))
              = NormalizeLabel(Some(TruthFor(accPreds[i].task_id)))}

\* C1: compute_accuracy returns total = the number of predictions, correct = the
\* number of predictions whose task_id is among the tasks and whose normalized
\* answer equals the normalized ground truth looked up for the id, accuracy =
\* correct/total, or 0.0 with total 0 and correct 0 for no predictions; every
\* prediction, also one with an unknown task_id, adds 1 to total, and one with
\* an unknown task_id never adds to correct.
AccuracyContract ==
    /\ accPc = "loop" =>
          /\ accTotal = accIdx
          /\ accCorrect = Cardinality(CorrectAmong(accIdx))
    /\ accPc = "done" =>
          /\ accResult.total = Len(accPreds)
          /\ accResult.correct = Cardinality(CorrectAmong(Len(accPreds)))
          /\ IF Len(accPreds) = 0
             THEN accResult = EvaluationResult(0, 0, ZeroFloat)
             ELSE SameFloat(accResult.accuracy,
                            Fraction(accResult.correct, accResult.total))

\* a returned result over two predictions: one with an unknown task_id, one
\* counted correct although its raw text differs from the ground truth
AccuracyWitness ==
    /\ accPc = "done"
    /\ accResult.total = 2 /\ accResult.correct = 1
    /\ \E i \in 1..2 : ~KnownId(accPreds[i].task_id)
    /\ \E i \in 1..2 : /\ KnownId(accPreds[i].task_id)
                       /\ accPreds[i].predicted_answer # TruthFor(accPreds[i].task_id)

-----------------------------------------------------------------------------
(* Properties of the run loop of the prompting methods (SpecRun) *)

\* the prompt the method builds from a variant
PromptBuiltFrom(v) ==
    CASE runMethod = "baseline" -> BaselinePromptText(v)
      [] runMethod = "cot"      -> WrapPromptText(runConfig, v.prompt_text)
      [] runMethod = "fewshot"  -> BuildFewshotPrompt(runConfig, v.prompt_text)

\* C4: for each of the three methods, when every client call succeeds, run
\* returns exactly len(prompts) results, and the i-th result carries the task_id
\* and length of the i-th input variant together with the text and token counts
\* of the client's response to the prompt built from that variant.
RunReturnsOneResultPerVariant ==
    runStatus = "returned" =>
        LET res == runReturned[1]
        IN /\ Len(res) = Len(runInput)
           /\ \A i \in 1..Len(runInput) :
                \E k \in 1..Len(runCalls) :
                    /\ runCalls[k].variant = i
                    /\ runCalls[k].request.prompt = PromptBuiltFrom(runInput[i])
                    /\ runCalls[k].response # None
                    /\ i <= Len(res)
                    /\ res[i].task_id = runInput[i].task_id
                    /\ res[i].prompt_length = runInput[i].length
                    /\ res[i].predicted_answer = runCalls[k].response[1].text
                    /\ res[i].tokens_input = runCalls[k].response[1].tokens_input
                    /\ res[i].tokens_output = runCalls[k].response[1].tokens_output

\* a run over three variants, the first two different and answered differently,
\* has returned
RunReturnsWitness ==
    /\ runStatus = "returned"
    /\ Len(runInput) = 3
    /\ runInput[1] # runInput[2]
    /\ runCalls[1].response # runCalls[2].response

\* C5: in run of every method complete is called at most once per variant, one
\* call at a time in input order, never retried; when the call for variant k
\* fails the failure leaves run, no call is made for a later variant and no
\* result list is returned, not even the results of the variants before k.
NoRetryFailFast ==
    /\ Len(runCalls) <= Len(runInput)
    /\ \A k \in 1..Len(runCalls) :
          /\ runCalls[k].variant = k
          /\ k < Len(runCalls) => runCalls[k].response # None
          /\ runCalls[k].response = None =>
                /\ runStatus = "raised"
                /\ runReturned = Unset
    /\ runStatus = "raised" => runReturned = Unset

\* the call for the second of three variants has failed: one result was built,
\* nothing was returned
NoRetryFailFastWitness ==
    /\ runStatus = "raised"
    /\ Len(runInput) = 3
    /\ Len(runCalls) = 2
    /\ Len(runResults) = 1
    /\ runReturned = Unset

\* C6: BaselineMethod.run sends each variant's prompt_text to the client
\* unchanged, stores a prompt_text equal to the variant's, and leaves the input
\* variants unchanged.
BaselineSendsPromptUnchanged ==
    runMethod = "baseline" =>
        /\ \A k \in 1..Len(runCalls) :
              /\ runCalls[k].variant \in 1..Len(runInput)
              /\ runCalls[k].request.prompt = runInput[runCalls[k].variant].prompt_text
        /\ Len(runResults) <= Len(runInput)
        /\ \A i \in 1..Len(runResults) :
              runResults[i].prompt_text = runInput[i].prompt_text
        /\ runPrompts = runInput

\* a baseline run over at least two variants has returned
BaselineUnchangedWitness ==
    /\ runMethod = "baseline"
    /\ runStatus = "returned"
    /\ Len(runCalls) >= 2
    /\ runCalls[1].request.prompt # runCalls[2].request.prompt

\* C7: CoTMethod.run stores in every result the wrapped prompt, which is
\* exactly the prompt sent to the client; it differs from the prompt_text
\* BaselineMethod stores for the same variant whenever the prefix or the suffix
\* is enabled, and is identical to it when both are disabled.
CoTStoresWrappedPrompt ==
    runMethod = "cot" =>
        \A i \in 1..Len(runResults) :
            /\ i <= Len(runCalls)
            /\ runCalls[i].variant = i
            /\ runResults[i].prompt_text = runCalls[i].request.prompt
            /\ (runConfig.add_prefix \/ runConfig.add_suffix)
                  => runResults[i].prompt_text # BaselinePromptText(runInput[i])
            /\ (~runConfig.add_prefix /\ ~runConfig.add_suffix)
                  => runResults[i].prompt_text = BaselinePromptText(runInput[i])

\* a CoT run with only the suffix enabled has stored a result
CoTStoresWitness ==
    /\ runMethod = "cot"
    /\ ~runConfig.add_prefix /\ runConfig.add_suffix
    /\ Len(runResults) >= 1
    /\ runInput[1].prompt_text # ""

\* the demonstration blocks, each followed by the blank line that separates it
\* from the next block
RECURSIVE ExampleBlocks(_)
ExampleBlocks(examples) ==
    IF examples = <<>> THEN ""
    ELSE "Input: " \o Head(examples).input_text \o "\nOutput: "
            \o Head(examples).output_text \o "\n\n" \o ExampleBlocks(Tail(examples))

\* the layout of a few-shot prompt: instruction line, demonstrations, target
FewShotLayout(cfg, original) ==
    (IF cfg.add_instruction THEN FewShotInstruction \o "\n\n" ELSE "")
        \o ExampleBlocks(cfg.examples)
        \o "Input: " \o original \o "\nOutput:"

\* C8: FewShotMethod builds the prompt as the instruction line if
\* add_instruction is set, then one "Input: ..\nOutput: .." block per configured
\* example in the configured order, then "Input: <original>\nOutput:" as the
\* last block with nothing after it; with no examples the prompt is only the
\* optional instruction line and that final block.
FewShotPromptLayout ==
    runMethod = "fewshot" =>
        \A k \in 1..Len(runCalls) :
            LET original == runInput[runCalls[k].variant].prompt_text
                sent     == runCalls[k].request.prompt
            IN /\ sent = FewShotLayout(runConfig, original)
               /\ runConfig.examples = <<>> =>
                     sent = (IF runConfig.add_instruction
                             THEN FewShotInstruction \o "\n\n" ELSE "")
                            \o "Input: " \o original \o "\nOutput:"

\* a few-shot prompt with the instruction and two different examples was sent
FewShotLayoutWitness ==
    /\ runMethod = "fewshot"
    /\ runConfig.add_instruction
    /\ Len(runConfig.examples) = 2
    /\ runConfig.examples[1] # runConfig.examples[2]
    /\ Len(runCalls) >= 1

-----------------------------------------------------------------------------
(* Properties of the dataset side (SpecGen) *)

\* C9: for every list of tasks whose task_type is sentiment, math or logic,
\* build_prompt_variants returns exactly 3 variants per task, exactly one for
\* each of the lengths short, medium and long, each with the id of its task.
ThreeVariantsPerTask ==
    /\ genPc = "done" =>
          /\ Len(genVariants) = 3 * Len(genTasks)
          /\ \A i \in 1..Len(genTasks) :
                LET own == {3 * i - 2, 3 * i - 1, 3 * i}
                IN /\ \A k \in own : genVariants[k].task_id = genTasks[i].id
                   /\ \A len \in {"short", "medium", "long"} :
                         Cardinality({k \in own : genVariants[k].length = len}) = 1
    /\ genPc = "build_raised" =>
          \E i \in 1..Len(genTasks) : genTasks[i].task_type \notin KnownTaskTypes

\* build_prompt_variants has returned for a JSON file of two or more tasks of
\* different types
ThreeVariantsWitness ==
    /\ genPc = "done"
    /\ genSource = "file"
    /\ Len(genTasks) >= 2
    /\ genTasks[1].task_type # genTasks[2].task_type

\* C10: in every run each PromptVariant's task_id resolves to exactly one Task
\* of that run, also when the tasks come from load_tasks_from_json (no two
\* tasks of a run share an id).
VariantResolvesToOneTask ==
    genPc = "done" =>
        \A k \in 1..Len(genVariants) :
            Cardinality({j \in 1..Len(genTasks) :
                            genTasks[j].id = genVariants[k].task_id}) = 1

-----------------------------------------------------------------------------
(* Properties of DummyLLMClient.complete (SpecDummy) *)

WordEnds(s) ==
    Cardinality({i \in 1..Len(s) :
                    ~IsSpace(s[i]) /\ (i = Len(s) \/ IsSpace(s[i + 1]))})

\* C12: for every request, complete reports tokens_input equal to the
\* whitespace word count of the whole prompt (not only of the embedded snippet)
\* and tokens_output equal to the whitespace word count of the text it returns.
DummyTokenCounts ==
    dummyPc = "ready" =>
        \A i \in 1..Len(dummyLog) :
            /\ dummyLog[i].response.tokens_input
                  = Some(WordEnds(dummyLog[i].request.prompt))
            /\ dummyLog[i].response.tokens_output
                  = Some(WordEnds(dummyLog[i].response.text))

\* a prompt with more words than its first 80 characters hold was answered
DummyTokenWitness ==
    /\ dummyPc = "ready"
    /\ \E i \in 1..Len(dummyLog) :
          LET prompt == dummyLog[i].request.prompt
          IN /\ Len(prompt) > SnippetLen
             /\ WordEnds(prompt)
                   > WordEnds(SubSeq(prompt, 1, SnippetLen))
             /\ dummyLog[i].response.tokens_input = Some(5)

\* a occurs in b as a run of consecutive characters
IsSubstring(a, b) ==
    \E k \in 0..(Len(b) - Len(a)) : SubSeq(b, k + 1, k + Len(a)) = a

\* the first 80 characters of the prompt, the whole prompt when it is shorter
PromptHead(request) ==
    [i \in 1..(IF Len(request.prompt) < SnippetLen THEN Len(request.prompt)
               ELSE SnippetLen) |-> request.prompt[i]]

\* C13 as stated: the text returned by complete embeds the first 80 characters
\* of the prompt (the whole prompt when it is shorter) and the model name.
DummyTextEmbedsPromptHead ==
    dummyPc = "ready" =>
        \A i \in 1..Len(dummyLog) :
            /\ IsSubstring(PromptHead(dummyLog[i].request), dummyLog[i].response.text)
            /\ IsSubstring(dummyLog[i].request.model_name, dummyLog[i].response.text)

\* C13, amended: the text returned by complete is the fixed head, then the
\* first 80 characters of the prompt (the whole prompt when it is shorter) with
\* every newline among them replaced by a space, then the fixed middle, the
\* request's model name and the fixed tail.
DummyTextEmbedsFlattenedHead ==
    dummyPc = "ready" =>
        \A i \in 1..Len(dummyLog) :
            LET text == dummyLog[i].response.text
                head == PromptHead(dummyLog[i].request)
                name == dummyLog[i].request.model_name
                h    == Len(FakeHead)
                m    == h + Len(head) + Len(FakeMid)
            IN /\ Len(text) = m + Len(name) + Len(FakeTail)
               /\ SubSeq(text, 1, h) = FakeHead
               /\ \A k \in 1..Len(head) :
                     text[h + k] = IF head[k] = "\n" THEN " " ELSE head[k]
               /\ SubSeq(text, h + Len(head) + 1, m) = FakeMid
               /\ SubSeq(text, m + 1, m + Len(name)) = name
               /\ SubSeq(text, m + Len(name) + 1, Len(text)) = FakeTail

\* a prompt longer than 80 characters with a newline among the first 80 was
\* answered
DummyTextWitness ==
    /\ dummyPc = "ready"
    /\ \E i \in 1..Len(dummyLog) :
          /\ Len(dummyLog[i].request.prompt) > SnippetLen
          /\ \E k \in 1..SnippetLen : dummyLog[i].request.prompt[k] = "\n"

-----------------------------------------------------------------------------
(* Properties of llm_query (SpecQuery) *)

\* the prompt is empty or whitespace-only, the temperature is outside
\* [0.0, 2.0], or max_tokens is not positive
InvalidArguments(args) ==
    \/ \A i \in 1..Len(args.prompt) : IsSpace(args.prompt[i])
    \/ args.temperature # None /\ (args.temperature[1] < 0 \/ args.temperature[1] > 20)
    \/ args.max_tokens # None /\ args.max_tokens[1] < 1

\* the API calls made so far
ApiCalls == SelectSeq(qryTrace, LAMBDA ev : ev.event = "api_call")

\* llm_query has ended with an exception of class cls
QueryFailedWith(cls) ==
    /\ qryPc = "done"
    /\ qryOutcome[1].raised
    /\ qryOutcome[1].error[1].kind = cls

\* C14: llm_query fails with a ValueError whenever the prompt is empty or
\* whitespace-only, the temperature is outside [0.0, 2.0], or max_tokens is not
\* a positive integer, and in none of these cases is a request sent to the API.
QueryRejectsInvalidArguments ==
    InvalidArguments(qryArgs) =>
        /\ ApiCalls = <<>>
        /\ qryPc \in {"validate", "done"}
        /\ qryPc = "done" => QueryFailedWith("ValueError")

\* a call with max_tokens = 0 and nothing else wrong has ended with ValueError
QueryRejectsWitness ==
    /\ qryPc = "done"
    /\ qryArgs.max_tokens = Some(0)
    /\ qryArgs.prompt = <<"h", "i">>
    /\ qryArgs.temperature = Some(20)
    /\ QueryFailedWith("ValueError")

\* C15: a validation error is raised before any I/O: the arguments are checked
\* before the environment configuration is loaded, before a client is created
\* and before any API call, so an invalid request yields the validation error
\* and not a configuration error even when required environment values are
\* missing.
QueryValidatesBeforeIO ==
    qryPc \in {"validate", "load", "select", "client", "call", "done"} =>
        /\ qryTrace # <<>> => ~InvalidArguments(qryArgs)
        /\ (qryPc = "done" /\ QueryFailedWith("ValueError")) =>
              /\ qryTrace = <<>>
              /\ qryDotenv = None
              /\ qryConfig = None
              /\ qryClient = None
        /\ (qryPc = "done" /\ InvalidArguments(qryArgs)) =>
              ~QueryFailedWith("ConfigurationError")

\* an invalid call made with the API key unset has ended with ValueError
QueryValidatesFirstWitness ==
    /\ qryPc = "done"
    /\ InvalidArguments(qryArgs)
    /\ qryEnviron["AZURE_OPENAI_API_KEY"] = None
    /\ QueryFailedWith("ValueError")
    /\ qryTrace = <<>>

\* the value os.getenv gives is unset or the empty string
Absent(n) == qryEnviron[n] = None \/ qryEnviron[n] = Some(<<>>)

\* C16: for a request that passes validation, llm_query fails with a
\* ConfigurationError and makes no API call if any of the four required
\* environment values is absent or empty once the .env file is loaded, or if
\* model "secondary" is requested while not all three secondary values are set.
QueryConfigurationErrors ==
    (/\ qryPc = "done"
     /\ ~InvalidArguments(qryArgs)
     /\ \/ \E n \in RequiredVars : Absent(n)
        \/ /\ qryArgs.model = Some(<<"secondary">>)
           /\ \E n \in SecondaryVars : Absent(n))
    => /\ QueryFailedWith("ConfigurationError")
       /\ ApiCalls = <<>>

\* the secondary model was requested with a complete primary configuration and
\* an empty secondary key
QueryConfigurationWitness ==
    /\ qryPc = "done"
    /\ ~InvalidArguments(qryArgs)
    /\ \A n \in RequiredVars : ~Absent(n)
    /\ qryArgs.model = Some(<<"secondary">>)
    /\ qryEnviron["AZURE_OPENAI_API_KEY_SECONDARY"] = Some(<<>>)
    /\ QueryFailedWith("ConfigurationError")

\* the endpoints that belong to the secondary configuration: the configured
\* one and the one without its trailing /models path
IsSecondaryEndpoint(e) ==
    LET configured == qryEnviron["AZURE_OPENAI_ENDPOINT_SECONDARY"][1]
    IN IF configured[Len(configured)] = "/models" THEN e \o <<"/models">> = configured
       ELSE IF configured[Len(configured)] = "/" /\ Len(configured) > 1
       THEN e \o <<"/models", "/">> = configured
       ELSE e = configured

UsesPrimary(call) ==
    /\ call.client.azure_endpoint = qryEnviron["AZURE_OPENAI_ENDPOINT"][1]
    /\ call.client.api_key = qryEnviron["AZURE_OPENAI_API_KEY"][1]

UsesSecondary(call) ==
    /\ \A n \in SecondaryVars : ~Absent(n)
    /\ IsSecondaryEndpoint(call.client.azure_endpoint)
    /\ call.client.api_key = qryEnviron["AZURE_OPENAI_API_KEY_SECONDARY"][1]

\* C17: llm_query uses the primary endpoint, API key and deployment name when
\* model is unspecified or "primary", and the secondary endpoint, API key and
\* deployment name when model is "secondary" and configured; whatever the model
\* argument, the endpoint and the API key of one call belong to the same
\* deployment configuration.
QueryUsesOneDeployment ==
    qryTrace # <<>> =>
        \A k \in 1..Len(ApiCalls) :
            LET call == ApiCalls[k]
            IN /\ qryArgs.model \in {None, Some(<<"primary">>)} =>
                     /\ UsesPrimary(call)
                     /\ call.params.model = qryEnviron["AZURE_OPENAI_DEPLOYMENT_NAME"][1]
               /\ qryArgs.model = Some(<<"secondary">>) =>
                     /\ UsesSecondary(call)
                     /\ call.params.model =
                           qryEnviron["AZURE_OPENAI_DEPLOYMENT_NAME_SECONDARY"][1]
               /\ UsesPrimary(call) \/ UsesSecondary(call)

\* the API was called for model "secondary" with a secondary endpoint that
\* ends in /models
QueryDeploymentWitness ==
    /\ qryPc = "done"
    /\ qryArgs.model = Some(<<"secondary">>)
    /\ Len(ApiCalls) = 1
    /\ qryEnviron["AZURE_OPENAI_ENDPOINT_SECONDARY"] = Some(<<"https://two", "/models">>)
    /\ ApiCalls[1].client.azure_endpoint = <<"https://two">>

\* C18: when the API call fails, llm_query propagates a distinct error kind for
\* a connectivity failure, for a rate-limit rejection and for a generic API
\* error, each with the upstream message; a rate-limit or connectivity failure
\* is never reported as another kind, and no failure is swallowed or retried.
QueryErrorKindsDistinct ==
    (qryPc = "done" /\ ApiCalls # <<>> /\ ApiCalls[1].outcome.raised) =>
        LET upstream == ApiCalls[1].outcome.error[1]
            reported == qryOutcome[1].error
        IN /\ Len(ApiCalls) = 1
           /\ qryOutcome[1].raised
           /\ IsInstance(upstream, "RateLimitError") =>
                 reported = Some(Exc("RateLimitError",
                                     "Rate limit exceeded: " \o upstream.message))
           /\ IsInstance(upstream, "APIConnectionError") =>
                 reported = Some(Exc("APIConnectionError",
                                     "Connection error: " \o upstream.message))
           /\ (/\ IsInstance(upstream, "APIError")
               /\ ~IsInstance(upstream, "RateLimitError")
               /\ ~IsInstance(upstream, "APIConnectionError")) =>
                 reported = Some(upstream)

\* C19: llm_query returns the text of the first completion choice whenever the
\* API returns at least one choice, and fails with an API error (not with any
\* other error kind) when the API returns no choices.
QueryFirstChoiceOrApiError ==
    (qryPc = "done" /\ ApiCalls # <<>> /\ ~ApiCalls[1].outcome.raised) =>
        LET choices == ApiCalls[1].outcome.returned[1]
        IN IF Len(choices) > 0
           THEN /\ ~qryOutcome[1].raised
                /\ qryOutcome[1].returned = Some(choices[1])
           ELSE QueryFailedWith("APIError")

-----------------------------------------------------------------------------
(* Properties of the baseline experiment script (SpecExp) *)

\* the rows of the predictions file written for a task
RowsOfTask(task_id) ==
    IF expRows = None THEN <<>>
    ELSE SelectSeq(expRows[1], LAMBDA row : row.task_id = task_id)

\* the rows of math_1 are three, each with ground truth "12" and is_correct 0
MathRowsAsExpected ==
    LET rows == RowsOfTask("math_1")
    IN /\ Len(rows) = 3
       /\ \A i \in 1..Len(rows) :
              rows[i].ground_truth = <<"1", "2">> /\ rows[i].is_correct = 0

\* the metrics count the three rows of math_1 and none of them as correct
MathMetricsAsExpected ==
    /\ expMetrics # None
    /\ LET math == SelectSeq(expPredictions, LAMBDA p : p.task_id = "math_1")
       IN /\ ComputeAccuracy(expTasks, math).total = 3
          /\ ComputeAccuracy(expTasks, math).correct = 0
          /\ expMetrics[1].correct = 0

\* C20: when the baseline experiment script has ended, its predictions file
\* holds 3 rows for math_1, each with ground truth "12" and is_correct 0, and
\* its metrics count these rows as 3 in total and 0 correct.
BaselineExperimentMathRows ==
    (expPc \in {"done", "raised"} /\ expCall = ScriptCall)
        => (MathRowsAsExpected /\ MathMetricsAsExpected)

-----------------------------------------------------------------------------
(* Properties of the orchestrators (SpecPipe) *)

\* C21: the steps of run_full_pipeline are started in the fixed order, a step
\* is started only after every earlier step returned 0, and a step that
\* returns non-zero ends the pipeline with that step's exit code as exit
\* status, no later step having been started.
PipelineFailFast ==
    /\ pipeStarted = SubSeq(Steps, 1, Len(pipeStarted))
    /\ Len(pipeCodes) \in {Len(pipeStarted) - 1, Len(pipeStarted)}
    /\ \A i \in 1..Len(pipeStarted) : \A j \in 1..(i - 1) : pipeCodes[j] = 0
    /\ \A i \in 1..Len(pipeCodes) :
          pipeCodes[i] # 0
              => /\ pipePc = "exited"
                 /\ Len(pipeStarted) = i
                 /\ pipeExit = Some(ExitStatus(pipeCodes[i]))
                 /\ pipeCodes[i] > 0 => pipeExit = Some(pipeCodes[i])
    /\ (pipeExit = Some(0)) => (Len(pipeCodes) = Len(Steps))

\* the third step failed with exit code 1 after two steps that returned 0
PipelineFailFastWitness ==
    /\ pipePc = "exited"
    /\ pipeCodes = <<0, 0, 1>>
    /\ pipeExit = Some(1)

\* the configured methods that have a mapped script that exists
Runnable(methods) ==
    SelectSeq(methods, LAMBDA m : m \in DOMAIN ScriptMap /\ ScriptMap[m] \in raExisting)

\* the runs that returned non-zero
FailedRuns == SelectSeq(raRuns, LAMBDA r : r.returncode # 0)

\* C22: run_all_experiments goes through the configured methods in order;
\* whatever the return codes of the experiments, the experiments run are
\* those of the entries passed so far that have a mapped, existing script,
\* once each and in configured order, every failure is logged, and the loop
\* ends only at the end of the list.
RunAllContinuesAfterFailure ==
    raPc \in {"loop", "done"}
        => /\ [i \in 1..Len(raRuns) |-> raRuns[i].method]
                 = Runnable(SubSeq(raMethods, 1, raIdx - 1))
           /\ \A i \in 1..Len(raRuns) : raRuns[i].script = ScriptMap[raRuns[i].method]
           /\ [i \in 1..Len(FailedRuns) |-> FailedRuns[i].method]
                 = [i \in 1..Len(SelectSeq(raLog, LAMBDA l : l.level = "ERROR")) |->
                       SelectSeq(raLog, LAMBDA l : l.level = "ERROR")[i].method]
           /\ (raPc = "done") => (raIdx = Len(raMethods) + 1)

\* the first experiment failed, the second method has no script, and the third
\* experiment was still run
RunAllContinuesWitness ==
    /\ raPc = "done"
    /\ raMethods = <<"cot", "zeroshot", "fewshot">>
    /\ Len(raRuns) = 2
    /\ raRuns[1].returncode = 1
    /\ raRuns[2].method = "fewshot"

\* C28: run_all_experiments ends its loop with exit status 0 whatever the
\* experiments returned, so run_full_pipeline never ends at its first step
\* once an experiment was attempted: the second step is the next one.
RunAllFailuresDoNotHalt ==
    /\ (raPc = "done") => (raExit = Some(0))
    /\ (pipePc = "exited" /\ Len(pipeStarted) = 1) => (raPc = "raised" /\ raRuns = <<>>)
    /\ (raPc = "done" /\ Len(pipeCodes) >= 1) => (pipeCodes[1] = 0 /\ pipeStage >= 2)

\* every experiment failed and the second step was started
RunAllFailuresWitness ==
    /\ Len(raRuns) = 3
    /\ \A i \in 1..Len(raRuns) : raRuns[i].returncode # 0
    /\ Len(pipeStarted) = 2
    /\ pipeStarted[2] = "src/analysis/summarize_methods.py"

-----------------------------------------------------------------------------
(* Properties of the command line (SpecCli) *)

\* the calls of _run_script whose value was not 0
CliFailures == SelectSeq(cliResults, LAMBDA r : r.rc # 0)

\* C23: main returns the return code of the script it runs; a script that is
\* missing is not spawned and counts as 2; analyze runs its four scripts in
\* the fixed order, returns the first non-zero value at once, and returns 0
\* only when all four returned 0.
CliReturnsStepCode ==
    /\ \A i \in 1..Len(cliResults) :
          /\ cliResults[i].spawned <=> cliResults[i].script \in cliExisting
          /\ ~cliResults[i].spawned => cliResults[i].rc = 2
    /\ (cliPc \in {"dispatch", "returned"})
          => /\ [i \in 1..Len(cliResults) |-> cliResults[i].script]
                   = SubSeq(CommandScripts[cliArgs.command], 1, Len(cliResults))
             /\ \A i \in 1..(Len(cliResults) - 1) : cliResults[i].rc = 0
    /\ (cliPc = "returned")
          => /\ cliResults # <<>>
             /\ cliReturn = Some(cliResults[Len(cliResults)].rc)
             /\ (cliReturn = Some(0))
                   => Len(cliResults) = Len(CommandScripts[cliArgs.command])
    /\ (cliPc = "dispatch" /\ cliResults # <<>>) => cliArgs.command = "analyze"

\* analyze stopped at its third script, which returned 1
CliAnalyzeWitness ==
    /\ cliPc = "returned"
    /\ cliArgs.command = "analyze"
    /\ Len(cliResults) = 3
    /\ cliResults[3].spawned
    /\ cliReturn = Some(1)

-----------------------------------------------------------------------------
(* Properties of load_config (SpecConfig) *)

\* the file load_config has to read: its argument, else the file named by
\* PROMPT_LAB_CONFIG (relative to the project root), else config/default.yaml
ExpectedConfigFile(path, environ) ==
    IF path # None THEN path[1]
    ELSE IF environ["PROMPT_LAB_CONFIG"] \in {None, Some("")} THEN DefaultConfigPath
    ELSE Resolved(ProjectRoot, environ["PROMPT_LAB_CONFIG"][1])

\* the value a field has without its override: the file's, or the default
FromFile(file, field) ==
    IF ConfigFiles[file][field] # None THEN ConfigFiles[file][field][1]
    ELSE IF field = "output_dir" THEN "results" ELSE ""

\* C24: the configuration load_config returns has each field replaced by the
\* value of its environment variable when that variable is set to a value (a
\* variable set to the empty string counts as unset), dataset forced to "file"
\* by PROMPT_LAB_DATASET_PATH, every other field as in the file or its
\* default, and the file is the argument when one is passed, else the one
\* PROMPT_LAB_CONFIG names.
LoadConfigAppliesOverrides ==
    (cfgPc = "done")
        => /\ cfgFile = Some(ExpectedConfigFile(cfgPath, cfgEnviron))
           /\ cfgResult[1].raised <=> cfgFile[1] \notin cfgExisting
           /\ ~cfgResult[1].raised
                 => LET cfg    == cfgResult[1].returned[1]
                        file   == cfgFile[1]
                        env(v) == cfgEnviron[v]
                        set(v) == env(v) \notin {None, Some("")}
                    IN /\ cfg.provider = IF set("PROMPT_LAB_PROVIDER")
                                         THEN env("PROMPT_LAB_PROVIDER")[1]
                                         ELSE FromFile(file, "provider")
                       /\ cfg.output_dir = IF set("PROMPT_LAB_OUTPUT_DIR")
                                           THEN env("PROMPT_LAB_OUTPUT_DIR")[1]
                                           ELSE FromFile(file, "output_dir")
                       /\ cfg.dataset_path = IF set("PROMPT_LAB_DATASET_PATH")
                                             THEN env("PROMPT_LAB_DATASET_PATH")[1]
                                             ELSE FromFile(file, "dataset_path")
                       /\ cfg.dataset = IF set("PROMPT_LAB_DATASET_PATH") THEN "file"
                                        ELSE FromFile(file, "dataset")

\* load_config() with PROMPT_LAB_CONFIG naming a file that says provider
\* openai, dataset file, and both PROMPT_LAB_PROVIDER and
\* PROMPT_LAB_DATASET_PATH set: the overrides win, output_dir is the default
LoadConfigOverridesWitness ==
    /\ cfgPc = "done"
    /\ cfgPath = None
    /\ cfgFile = Some("/repo/config/small.yaml")
    /\ cfgEnviron["PROMPT_LAB_PROVIDER"] = Some("azure")
    /\ cfgEnviron["PROMPT_LAB_DATASET_PATH"] = Some("/data/mine.json")
    /\ cfgEnviron["PROMPT_LAB_OUTPUT_DIR"] = None
    /\ ~cfgResult[1].raised
    /\ cfgResult[1].returned[1]
          = [provider |-> "azure", dataset |-> "file", dataset_path |-> "/data/mine.json",
             output_dir |-> "results"]

-----------------------------------------------------------------------------
(* Properties of pad_prompt_to_target_tokens as build_prompt_variants calls *)
(* it (SpecGen)                                                              *)

\* the calls of pad_prompt_to_target_tokens made so far: the prompt and the
\* target of each, and the text returned
PadCalls ==
    IF genPc \in {"build", "done"}
    THEN {[prompt |-> PromptBases(genTasks[(k + 2) \div 3])[((k - 1) % 3) + 1],
           target |-> <<ShortTarget, MediumTarget, LongTarget>>[((k - 1) % 3) + 1],
           result |-> genVariants[k].prompt_text] : k \in 1..Len(genVariants)}
    ELSE {}

\* the position of the last token of text that is tok, 0 if there is none
LastToken(text, tok) ==
    IF \E i \in 1..Len(text) : text[i] = tok
    THEN CHOOSE i \in 1..Len(text) : text[i] = tok /\ \A j \in (i + 1)..Len(text) : text[j] # tok
    ELSE 0

\* the words of text that follow its last padding sentence
WordsAfterPadding(text) ==
    Words(SubSeq(text, LastToken(text, "answer.") + 1, Len(text)))

\* the words of n padding sentences
RECURSIVE PaddingWords(_)
PaddingWords(n) == IF n = 0 THEN <<>> ELSE Words(PaddingSentence) \o PaddingWords(n - 1)

\* C25: a prompt that has the target number of words is returned unchanged;
\* otherwise the padding is inserted before the final "Answer:" of the prompt:
\* a prompt built by build_prompt_variants, which ends with "Answer:", has
\* nothing but "Answer:" after the padding and still ends with "Answer:".
PadBeforeFinalMarker ==
    \A c \in PadCalls :
        IF Len(Words(c.prompt)) >= c.target THEN c.result = c.prompt
        ELSE /\ c.result[Len(c.result)] = Marker
             /\ PadBlocks(Len(Words(c.prompt)), c.target) > 0
                   => WordsAfterPadding(c.result) = <<Marker>>

\* C26: a prompt with fewer words than the target comes back with at most
\* target words and more than target minus 17, 17 being the number of words
\* of the padding sentence, and its words are the prompt's words with whole
\* padding sentences inserted at one place.
PadWordCountInRange ==
    /\ Len(Words(PaddingSentence)) = 17
    /\ \A c \in PadCalls :
          Len(Words(c.prompt)) < c.target
              => LET before == Words(c.prompt)
                     after  == Words(c.result)
                 IN /\ Len(after) <= c.target
                    /\ Len(after) > c.target - 17
                    /\ (Len(after) - Len(before)) % 17 = 0
                    /\ \E j \in 0..Len(before) :
                          after = SubSeq(before, 1, j)
                                    \o PaddingWords((Len(after) - Len(before)) \div 17)
                                    \o SubSeq(before, j + 1, Len(before))


-----------------------------------------------------------------------------
(* Properties of the experiment scripts (SpecScript).                       *)

\* the predictions compute_accuracy counts as correct in this run
ScriptCounted ==
    {i \in 1..Len(scrPredictions) :
        /\ scrPredictions[i].task_id \in DOMAIN TruthById(scrTasks)
        /\ NormalizeLabel(Some(scrPredictions[i].predicted_answer))
              = NormalizeLabel(Some(TruthById(scrTasks)[scrPredictions[i].task_id]))}

\* the rows of the predictions file with is_correct = 1
ScriptRowsMarkedCorrect == {i \in 1..Len(scrRows[1]) : scrRows[1][i].is_correct = 1}

\* C27: in a run of an experiment script, a row of the predictions file has
\* is_correct = 1 only if compute_accuracy counted the same prediction as
\* correct, so the rows with is_correct = 1 are never more than the correct
\* value of the metrics file of the run
RowsCorrectOnlyIfCounted ==
    scrRows # None =>
        /\ Len(scrRows[1]) = Len(scrPredictions)
        /\ ScriptRowsMarkedCorrect \subseteq ScriptCounted
        /\ scrMetrics # None =>
               Cardinality(ScriptRowsMarkedCorrect) <= scrMetrics[1].correct

\* a finished run whose metrics file counts more correct predictions than
\* its predictions file marks: an answer equal to the truth only once normalized
RowsFewerThanCountedWitness ==
    /\ scrRows # None
    /\ scrMetrics # None
    /\ ScriptRowsMarkedCorrect # {}
    /\ Cardinality(ScriptRowsMarkedCorrect) < scrMetrics[1].correct

-----------------------------------------------------------------------------
(* Idempotence of _normalize_label (SpecNorm).                              *)

\* C29: _normalize_label is idempotent: for every input s, None and the
\* empty string included, _normalize_label applied to _normalize_label(s)
\* gives _normalize_label(s) again
NormalizeIdempotent ==
    /\ normRes # Unset => NormalizeLabel(normRes) = normRes[1]
    /\ normAltRes # Unset => NormalizeLabel(normAltRes) = normAltRes[1]

\* a call whose input had outer whitespace, an upper-case letter or a trailing
\* run to lose, and whose result is not empty
NormalizeIdempotentWitness ==
    /\ normArg # None
    /\ normRes # Unset
    /\ normRes[1] # <<>>
    /\ Len(normRes[1]) < Len(normArg[1])
    /\ Lower(normRes[1]) = normRes[1]
    /\ Lower(normArg[1]) # normArg[1]

=============================================================================
